---- MODULE Spec2Model ----
(***************************************************************************)
(* gpx_reducer: the track simplifier (reducePointsByDirection), the        *)
(* direction utilities it is built on, and the route statistics engine     *)
(* (calculateDistance, calculateRouteStatistics).                          *)
(*                                                                         *)
(* Coordinates are JavaScript values: a number, a string or undefined.     *)
(* Numbers are held in micro-degrees (1e-6 degree), so that the decimal    *)
(* strings of a GPX file ("43.307228") parse to integers; NaN is a number  *)
(* of its own.  Distances are held in micro nautical miles, the precision  *)
(* calculateDistance rounds to.                                            *)
(***************************************************************************)
EXTENDS Integers, Sequences, FiniteSets, TLC

VARIABLES
    points,         \* reducePointsByDirection: the array passed in
    pc,             \* reducePointsByDirection: where the call stands
    i,              \* the loop index of the walk (0-based, as in the source)
    reducedPoints,  \* the array being built
    currentPoint,   \* the last point considered
    directions,     \* the tracked direction state
    result,         \* the array returned
    inspections,    \* how many times coordinates were parsed in this call
    pass,           \* 1: first call, 2: the call on the first call's output
    firstInput,     \* the array of the first call
    firstResult,    \* what the first call returned
    originalArg,    \* calculateRouteStatistics: first argument
    reducedArg,     \* calculateRouteStatistics: second argument
    spc,            \* calculateRouteStatistics: where the call stands
    statI,          \* the index i of its loops (0-based, as in the source)
    straightLineDistance, \* its local of that name (micro-nm)
    boatDistance,   \* its local of that name (micro-nm)
    skipped,        \* the i whose pair (i-1, i) of original points was skipped
    directionChanges, \* its local of that name
    segments,       \* its local array "directions"
    previousBearing, \* its local of that name
    totalHours,     \* its local of that name (hundredths of an hour)
    maxSpeed,       \* its local of that name (micro-knots)
    stats,          \* what it returned
    argPoint1,      \* geometry and direction calls: the first point passed
    argPoint2,      \* the second point passed
    argDirections,  \* hasDirectionChanged: the direction state passed
    gpc,            \* which of the calls is next
    distanceOut,    \* calculateDistance(argPoint1, argPoint2)
    distanceBackOut, \* calculateDistance(argPoint2, argPoint1)
    bearingOut,     \* calculateBearing(argPoint1, argPoint2)
    directionsOut,  \* getCurrentDirections(argPoint1, argPoint2)
    changedOut,     \* hasDirectionChanged(argPoint1, argPoint2, argDirections)
    statsPass,      \* 1: a call of calculateRouteStatistics, 2: the call after it
    firstOriginalArg, \* the first argument of the first of the two calls
    firstReducedArg, \* its second argument
    firstStats,     \* what the first call returned
    nextId,         \* the identity the next object created will have
    pointsId,       \* the identity of the array passed as points
    resultId,       \* the identity of the array reducePointsByDirection returned
    defaultId,      \* the identity of defaultStats in the current call
    directionsId,   \* the identity of the local array "directions"
    statsId,        \* the identity of the record calculateRouteStatistics returned
    heap,           \* the statistics records that exist, by identity
    routeIx,        \* processFile: the route forEach is at (1-based)
    fpc,            \* processFile: where the iteration stands
    route,          \* the route of the iteration
    validPoints,    \* the array the filter built
    finished        \* the routes already processed

reduceVars == <<points, pc, i, reducedPoints, currentPoint, directions, result,
                inspections, pass, firstInput, firstResult>>
statsVars == <<originalArg, reducedArg, spc, statI, straightLineDistance,
               boatDistance, skipped, directionChanges, segments,
               previousBearing, totalHours, maxSpeed, stats>>
geoVars == <<argPoint1, argPoint2, argDirections, gpc, distanceOut,
             distanceBackOut, bearingOut, directionsOut, changedOut>>
pairVars == <<statsPass, firstOriginalArg, firstReducedArg, firstStats>>
heapVars == <<nextId, pointsId, resultId, defaultId, directionsId, statsId, heap>>
fileVars == <<routeIx, fpc, route, validPoints, finished>>
vars == <<reduceVars, statsVars, geoVars, pairVars, heapVars, fileVars>>

----------------------------------------------------------------------------
(* Bounds of the model *)

\* longest array of points drawn from the pool for the simplifier
MaxLen == 5
\* longest array of points drawn from the pool for the statistics
MaxStatLen == 4

----------------------------------------------------------------------------
(* JavaScript numbers and coordinate values *)

\* micro-degrees in a degree: six decimals of a coordinate string
Micro == 1000000

Num(v) == [nan |-> FALSE, v |-> v]
NaN == [nan |-> TRUE, v |-> 0]

JsNumber(v) == [t |-> "number", num |-> Num(v), s |-> <<>>]
JsString(s) == [t |-> "string", num |-> Num(0), s |-> s]
JsUndefined == [t |-> "undefined", num |-> Num(0), s |-> <<>>]

\* the value null as a coordinate: not undefined, and prints as "null"
JsNullValue == [t |-> "null", num |-> Num(0), s |-> <<>>]

Digit(c) ==
    CASE c = "0" -> 0 [] c = "1" -> 1 [] c = "2" -> 2 [] c = "3" -> 3
      [] c = "4" -> 4 [] c = "5" -> 5 [] c = "6" -> 6 [] c = "7" -> 7
      [] c = "8" -> 8 [] c = "9" -> 9 [] OTHER -> -1

IsDigit(c) == Digit(c) >= 0

\* the run of digits of s from position j on: its value and where it ends
RECURSIVE ScanInt(_, _, _)
ScanInt(s, j, acc) ==
    IF j <= Len(s) /\ IsDigit(s[j])
    THEN ScanInt(s, j + 1, acc * 10 + Digit(s[j]))
    ELSE [v |-> acc, next |-> j]

\* the fraction digits of s from position j on, in micro units; digits past
\* the sixth are below the model's resolution
RECURSIVE ScanFrac(_, _, _, _)
ScanFrac(s, j, acc, scale) ==
    IF j <= Len(s) /\ IsDigit(s[j])
    THEN ScanFrac(s, j + 1, acc + Digit(s[j]) * scale, scale \div 10)
    ELSE [v |-> acc, next |-> j]

\* parseFloat of a string: the longest prefix that is a decimal literal
\* (sign, digits, point, digits); NaN when there is none
ParseString(s) ==
    LET signed == Len(s) >= 1 /\ s[1] \in {"-", "+"}
        start == IF signed THEN 2 ELSE 1
        sign == IF signed /\ s[1] = "-" THEN -1 ELSE 1
        ip == ScanInt(s, start, 0)
        hasInt == ip.next > start
        hasDot == ip.next <= Len(s) /\ s[ip.next] = "."
        fp == IF hasDot THEN ScanFrac(s, ip.next + 1, 0, Micro \div 10)
              ELSE [v |-> 0, next |-> ip.next]
        hasFrac == hasDot /\ fp.next > ip.next + 1
    IN  IF ~hasInt /\ ~hasFrac THEN NaN
        ELSE Num(sign * (ip.v * Micro + fp.v))

\* parseFloat(x): x is converted to a string first; a number prints and
\* parses back to itself, undefined prints as "undefined", which is NaN
parseFloat(x) ==
    CASE x.t = "number" -> x.num
      [] x.t = "string" -> ParseString(x.s)
      [] OTHER -> NaN

----------------------------------------------------------------------------
(* Points *)

\* an object with its identity (ref), as one element of a parsed track
\* time is the point's time.value as epoch milliseconds (what
\* new Date(value).getTime() yields), speed its
\* extensions.navionics_speed.value
NoTime == [present |-> FALSE, ms |-> Num(0)]
TimeAt(ms) == [present |-> TRUE, ms |-> ms]

TrackPoint(ref, lat, lon, time, speed) ==
    [kind |-> "object", ref |-> ref, lat |-> lat, lon |-> lon,
     time |-> time, speed |-> speed]
Point(ref, lat, lon) == TrackPoint(ref, lat, lon, NoTime, JsUndefined)
Null == [kind |-> "null", ref |-> 0, lat |-> JsUndefined, lon |-> JsUndefined,
         time |-> NoTime, speed |-> JsUndefined]
Undefined == [kind |-> "undefined", ref |-> 0, lat |-> JsUndefined,
              lon |-> JsUndefined, time |-> NoTime, speed |-> JsUndefined]

\* !p is false
Truthy(p) == p.kind = "object"

\* points[j] of a JavaScript array (0-based): undefined past its end
At(arr, j) == IF j >= 0 /\ j < Len(arr) THEN arr[j + 1] ELSE Undefined

\* a === b on points: objects by identity, null and undefined by kind
StrictEquals(a, b) ==
    IF a.kind = "object" /\ b.kind = "object" THEN a.ref = b.ref
    ELSE a.kind = b.kind

----------------------------------------------------------------------------
(* DirectionUtils *)

\* a variant that takes values less than 0.00001 apart as equal
getDirectionWithTolerance(current, previous) ==
    IF ~current.nan /\ ~previous.nan /\ current.v > previous.v + 10 THEN 1
    ELSE IF ~current.nan /\ ~previous.nan /\ current.v < previous.v - 10 THEN -1
    ELSE 0

getDirection(current, previous) ==
    IF ~current.nan /\ ~previous.nan /\ current.v > previous.v THEN 1
    ELSE IF ~current.nan /\ ~previous.nan /\ current.v < previous.v THEN -1
    ELSE 0

\* a variant that validates the range of a latitude before comparing
getCurrentDirectionsValidating(current, previous) ==
    IF ~Truthy(current) \/ ~Truthy(previous)
    THEN [err |-> FALSE, lat |-> 0, lon |-> 0, parsed |-> FALSE]
    ELSE LET currentLat == parseFloat(current.lat)
             currentLon == parseFloat(current.lon)
             prevLat == parseFloat(previous.lat)
             prevLon == parseFloat(previous.lon)
             bad(n, lim) == n.nan \/ n.v > lim * Micro \/ n.v < -(lim * Micro)
         IN  [err |-> bad(currentLat, 90) \/ bad(prevLat, 90)
                      \/ bad(currentLon, 180) \/ bad(prevLon, 180),
              lat |-> getDirection(currentLat, prevLat),
              lon |-> getDirection(currentLon, prevLon),
              parsed |-> TRUE]

\* err: the call threw; parsed: it read the coordinates
getCurrentDirections(current, previous) ==
    IF ~Truthy(current) \/ ~Truthy(previous)
    THEN [err |-> FALSE, lat |-> 0, lon |-> 0, parsed |-> FALSE]
    ELSE LET currentLat == parseFloat(current.lat)
             currentLon == parseFloat(current.lon)
             prevLat == parseFloat(previous.lat)
             prevLon == parseFloat(previous.lon)
         IN  [err |-> FALSE,
              lat |-> getDirection(currentLat, prevLat),
              lon |-> getDirection(currentLon, prevLon),
              parsed |-> TRUE]

\* a variant that only looks at the latitude
hasDirectionChangedLatOnly(current, previous, directionState) ==
    IF ~Truthy(previous) THEN [err |-> "none", changed |-> TRUE]
    ELSE IF directionState.kind # "object"
    THEN [err |-> "TypeError", changed |-> FALSE]
    ELSE LET currentDirections == getCurrentDirections(current, previous)
         IN  [err |-> "none",
              changed |-> currentDirections.lat # directionState.lat]

\* the direction state passed to hasDirectionChanged: an object {lat, lon},
\* or nothing
DirectionState(lat, lon) == [kind |-> "object", lat |-> lat, lon |-> lon]
NoDirectionState == [kind |-> "undefined", lat |-> 0, lon |-> 0]

\* reading a field of a missing direction state is a TypeError
hasDirectionChanged(current, previous, directionState) ==
    IF ~Truthy(previous) THEN [err |-> "none", changed |-> TRUE]
    ELSE IF directionState.kind # "object"
    THEN [err |-> "TypeError", changed |-> FALSE]
    ELSE LET currentDirections == getCurrentDirections(current, previous)
         IN  [err |-> "none",
              changed |-> \/ currentDirections.lat # directionState.lat
                          \/ currentDirections.lon # directionState.lon]

Dir(d) == [lat |-> d.lat, lon |-> d.lon]

----------------------------------------------------------------------------
(* The inputs of the simplifier *)

\* coordinate pairs the arrays are drawn from: numbers and numeric strings,
\* a non-numeric string, a missing latitude, out-of-range values
Pool ==
    << [lat |-> JsNumber(2 * Micro), lon |-> JsNumber(0)],
       [lat |-> JsString(<<"1", ".", "5">>), lon |-> JsNumber(0)],
       [lat |-> JsNumber(0), lon |-> JsNumber(0)],
       [lat |-> JsString(<<"a", "b", "c">>), lon |-> JsString(<<"-", "0", ".", "5">>)],
       [lat |-> JsUndefined, lon |-> JsNumber(0)],
       [lat |-> JsNumber(91 * Micro), lon |-> JsNumber(181 * Micro)] >>

\* the seven points of the test "should keep points where direction changes"
FixturePoints ==
    << [lat |-> JsString(<<"4", "3", ".", "3", "0", "7", "2", "2", "8">>),
        lon |-> JsString(<<"1", "6", ".", "4", "5", "7", "7", "8", "2">>)],
       [lat |-> JsString(<<"4", "3", ".", "3", "0", "6", "2", "1", "1">>),
        lon |-> JsString(<<"1", "6", ".", "4", "5", "4", "6", "8", "3">>)],
       [lat |-> JsString(<<"4", "3", ".", "3", "0", "5", "6", "7", "3">>),
        lon |-> JsString(<<"1", "6", ".", "4", "5", "3", "8", "1", "2">>)],
       [lat |-> JsString(<<"4", "3", ".", "3", "0", "2", "4", "8", "5">>),
        lon |-> JsString(<<"1", "6", ".", "4", "4", "7", "6", "7", "6">>)],
       [lat |-> JsString(<<"4", "3", ".", "3", "0", "2", "4", "7", "1">>),
        lon |-> JsString(<<"1", "6", ".", "4", "4", "7", "4", "4", "3">>)],
       [lat |-> JsString(<<"4", "3", ".", "3", "0", "5", "5", "0", "2">>),
        lon |-> JsString(<<"1", "6", ".", "4", "3", "3", "0", "6", "1">>)],
       [lat |-> JsString(<<"4", "3", ".", "3", "1", "5", "6", "3", "7">>),
        lon |-> JsString(<<"1", "6", ".", "4", "0", "8", "7", "9", "0">>)] >>

\* an array literal: every element is an object of its own
MkArray(coords) ==
    [j \in 1..Len(coords) |-> Point(j, coords[j].lat, coords[j].lon)]

Fixture == MkArray(FixturePoints)

ReduceInputs ==
    { MkArray([j \in 1..Len(ix) |-> Pool[ix[j]]]) :
        ix \in UNION { [1..n -> 1..Len(Pool)] : n \in 0..MaxLen } }
    \cup {Fixture}

----------------------------------------------------------------------------
(* reducePointsByDirection *)

\* the guard of the early return: !points || points.length <= 2
EarlyReturnBelowTwo(pts) == Len(pts) < 2
EarlyReturn(pts) == Len(pts) <= 2

\* what the early return hands back: [...(points || [])]
EarlyCopyDropsLast(pts) == SubSeq(pts, 1, Len(pts) - 1)
EarlyCopy(pts) == pts

\* reducedPoints after the first point and currentPoint = points[1] are pushed
SeedPoints(pts) == <<At(pts, 0), At(pts, 1)>>

\* newDirections.lat !== directions.lat || newDirections.lon !== directions.lon
DirectionDiffersOnBoth(newDirections, tracked) ==
    newDirections.lat # tracked.lat /\ newDirections.lon # tracked.lon
\* a variant that only compares the latitude directions
DirectionDiffersOnLatitude(newDirections, tracked) ==
    newDirections.lat # tracked.lat

DirectionDiffers(newDirections, tracked) ==
    newDirections.lat # tracked.lat \/ newDirections.lon # tracked.lon

\* currentPoint = nextPoint, at the end of every iteration
NextCurrentWhenRetained(retained, nextPoint, current) ==
    IF retained THEN nextPoint ELSE current
NextCurrent(retained, nextPoint, current) == nextPoint

\* reducedPoints[reducedPoints.length - 1] !== lastPoint
SameCoordinates(a, b) == a.kind = b.kind /\ a.lat = b.lat /\ a.lon = b.lon
NeedsLastByValue(reduced, lastPoint) ==
    ~SameCoordinates(At(reduced, Len(reduced) - 1), lastPoint)
NeedsLastAlways(reduced, lastPoint) == TRUE
NeedsLastNever(reduced, lastPoint) == FALSE
NeedsLast(reduced, lastPoint) ==
    ~StrictEquals(At(reduced, Len(reduced) - 1), lastPoint)

NoDirections == [lat |-> 0, lon |-> 0]

ReduceLocalsInit ==
    /\ i = 0
    /\ reducedPoints = <<>>
    /\ currentPoint = Undefined
    /\ directions = NoDirections
    /\ result = <<>>
    /\ inspections = 0

Throw ==
    /\ pc' = "thrown"
    /\ UNCHANGED <<points, i, reducedPoints, currentPoint, directions, result,
                   inspections, pass, firstInput, firstResult>>

\* a variant that hands a short array back as it is
ReturnedArrayAliasingShort(pts, passed, fresh) ==
    IF Len(pts) <= 2 THEN passed ELSE fresh

\* lines 349 and 351: the spread copy and the array literal are both new
\* arrays
ReturnedArray(pts, passed, fresh) == fresh

\* lines 349-356: the early return, or the seeding of the walk
ReduceEnter ==
    /\ pc = "call"
    /\ IF EarlyReturn(points)
       THEN /\ result' = EarlyCopy(points)
            /\ pc' = "done"
            /\ UNCHANGED <<points, i, reducedPoints, currentPoint, directions,
                           inspections, pass, firstInput, firstResult>>
       ELSE LET d == getCurrentDirections(At(points, 1), At(points, 0))
            IN  IF d.err THEN Throw
                ELSE /\ reducedPoints' = SeedPoints(points)
                     /\ currentPoint' = At(points, 1)
                     /\ directions' = Dir(d)
                     /\ inspections' = inspections + (IF d.parsed THEN 1 ELSE 0)
                     /\ i' = 2
                     /\ pc' = "loop"
                     /\ UNCHANGED <<points, result, pass, firstInput, firstResult>>
    /\ UNCHANGED statsVars
    /\ UNCHANGED geoVars
    /\ UNCHANGED pairVars
    /\ resultId' = ReturnedArray(points, pointsId, nextId)
    /\ nextId' = nextId + 1
    /\ UNCHANGED <<pointsId, defaultId, directionsId, statsId, heap>>
    /\ UNCHANGED fileVars

\* lines 358-375: one iteration of the walk
ReduceStep ==
    /\ pc = "loop"
    /\ i < Len(points)
    /\ LET nextPoint == At(points, i)
           newDirections == getCurrentDirections(nextPoint, currentPoint)
           retained == DirectionDiffers(Dir(newDirections), directions)
       IN  IF newDirections.err THEN Throw
           ELSE /\ reducedPoints' = IF retained THEN Append(reducedPoints, nextPoint)
                                    ELSE reducedPoints
                /\ directions' = IF retained THEN Dir(newDirections) ELSE directions
                /\ currentPoint' = NextCurrent(retained, nextPoint, currentPoint)
                /\ inspections' = inspections
                                  + (IF newDirections.parsed THEN 1 ELSE 0)
                /\ i' = i + 1
                /\ UNCHANGED <<points, pc, result, pass, firstInput, firstResult>>
    /\ UNCHANGED statsVars
    /\ UNCHANGED geoVars
    /\ UNCHANGED pairVars
    /\ UNCHANGED heapVars
    /\ UNCHANGED fileVars

\* lines 377-383: the last point, and the return
ReduceFinish ==
    /\ pc = "loop"
    /\ i >= Len(points)
    /\ LET lastPoint == At(points, Len(points) - 1)
       IN  result' = IF NeedsLast(reducedPoints, lastPoint)
                     THEN Append(reducedPoints, lastPoint)
                     ELSE reducedPoints
    /\ pc' = "done"
    /\ UNCHANGED <<points, i, reducedPoints, currentPoint, directions,
                   inspections, pass, firstInput, firstResult>>
    /\ UNCHANGED statsVars
    /\ UNCHANGED geoVars
    /\ UNCHANGED pairVars
    /\ UNCHANGED heapVars
    /\ UNCHANGED fileVars

\* the caller passes the array it got back to reducePointsByDirection again
ReduceAgain ==
    /\ pc = "done"
    /\ pass = 1
    /\ pass' = 2
    /\ firstResult' = result
    /\ points' = result
    /\ pc' = "call"
    /\ i' = 0
    /\ reducedPoints' = <<>>
    /\ currentPoint' = Undefined
    /\ directions' = NoDirections
    /\ result' = <<>>
    /\ inspections' = 0
    /\ UNCHANGED firstInput
    /\ UNCHANGED statsVars
    /\ UNCHANGED geoVars
    /\ UNCHANGED pairVars
    /\ pointsId' = resultId
    /\ resultId' = 0
    /\ UNCHANGED <<nextId, defaultId, directionsId, statsId, heap>>
    /\ UNCHANGED fileVars

StatsLocalsInit ==
    /\ statI = 0
    /\ straightLineDistance = 0
    /\ boatDistance = 0
    /\ skipped = {}
    /\ directionChanges = 0
    /\ segments = <<>>
    /\ previousBearing = [isNull |-> TRUE, v |-> 0]
    /\ totalHours = Num(0)
    /\ maxSpeed = 0
    /\ stats = [kind |-> "none"]

StatsIdle ==
    /\ originalArg = [kind |-> "null", elems |-> <<>>]
    /\ reducedArg = [kind |-> "null", elems |-> <<>>]
    /\ spc = "idle"
    /\ StatsLocalsInit

\* no geometry or direction call is in progress
GeoOutputsInit ==
    /\ distanceOut = [err |-> "pending", v |-> 0]
    /\ distanceBackOut = [err |-> "pending", v |-> 0]
    /\ bearingOut = [err |-> "pending", v |-> 0]
    /\ directionsOut = [err |-> "pending", lat |-> 0, lon |-> 0]
    /\ changedOut = [err |-> "pending", changed |-> FALSE]

GeoIdle ==
    /\ argPoint1 = Undefined
    /\ argPoint2 = Undefined
    /\ argDirections = [kind |-> "undefined", lat |-> 0, lon |-> 0]
    /\ gpc = "idle"
    /\ GeoOutputsInit

\* no second call of calculateRouteStatistics is being compared with a first
PairIdle ==
    /\ statsPass = 1
    /\ firstOriginalArg = [kind |-> "null", elems |-> <<>>]
    /\ firstReducedArg = [kind |-> "null", elems |-> <<>>]
    /\ firstStats = [kind |-> "none"]

\* the objects that exist before a call: the array passed as points
HeapInit ==
    /\ nextId = 2
    /\ pointsId = 1
    /\ resultId = 0
    /\ defaultId = 0
    /\ directionsId = 0
    /\ statsId = 0
    /\ heap = <<>>

\* processFile is not running
FileIdle ==
    /\ routeIx = 0
    /\ fpc = "idle"
    /\ route = [name |-> "", hasTrkseg |-> FALSE, trkpt |-> <<>>]
    /\ validPoints = [id |-> 0, elems |-> <<>>]
    /\ finished = <<>>

Init ==
    /\ points \in ReduceInputs
    /\ firstInput = points
    /\ firstResult = <<>>
    /\ pass = 1
    /\ pc = "call"
    /\ ReduceLocalsInit
    /\ StatsIdle
    /\ GeoIdle
    /\ PairIdle
    /\ HeapInit
    /\ FileIdle

Next == ReduceEnter \/ ReduceStep \/ ReduceFinish \/ ReduceAgain

Spec == Init /\ [][Next]_vars

----------------------------------------------------------------------------
(* Claims about reducePointsByDirection, under Spec *)

Done == pc = "done"

Range(arr) == {arr[j] : j \in 1..Len(arr)}

\* where an object stands in an array whose elements are distinct objects
Pos(arr, p) == CHOOSE j \in 1..Len(arr) : arr[j] = p

\* the input positions (0-based) of the elements of out
Positions(out, inp) == [m \in 1..Len(out) |-> Pos(inp, out[m]) - 1]

StrictlyIncreasing(seq) == \A m \in 1..(Len(seq) - 1) : seq[m] < seq[m + 1]

IsSubsequence(out, inp) ==
    /\ Range(out) \subseteq Range(inp)
    /\ StrictlyIncreasing(Positions(out, inp))

Malformed(p) ==
    LET lat == parseFloat(p.lat)
        lon == parseFloat(p.lon)
    IN  \/ lat.nan \/ lon.nan
        \/ lat.v > 90 * Micro \/ lat.v < -(90 * Micro)
        \/ lon.v > 180 * Micro \/ lon.v < -(180 * Micro)

\* C1: for every non-empty input, the output starts with the first input
\* point and ends with the last input point (the same objects).
C1_FirstAndLastKept ==
    (Done /\ Len(points) >= 1) =>
        /\ Len(result) >= 1
        /\ result[1] = points[1]
        /\ result[Len(result)] = points[Len(points)]

\* a call whose walk did not retain the last point, which was then appended
C1_Witness ==
    /\ Done /\ pass = 1 /\ Len(points) >= 3
    /\ Len(result) = Len(reducedPoints) + 1
    /\ result[Len(result)] = points[Len(points)]

\* C2: the output is a subsequence of the input in original order, at
\* strictly increasing input positions, and never longer than the input.
C2_Subsequence ==
    Done => /\ IsSubsequence(result, points)
            /\ Len(result) <= Len(points)

\* a call that dropped at least one point
C2_Witness ==
    Done /\ pass = 1 /\ Len(points) >= 4 /\ Len(result) < Len(points)

\* C3: the output of an input of n points has at least min(2, n) points.
C3_AtLeastMinTwo ==
    Done => Len(result) >= (IF Len(points) < 2 THEN Len(points) ELSE 2)

\* the bound is reached: two points in, two points out
C3_Witness == Done /\ pass = 1 /\ Len(points) = 2 /\ Len(result) = 2

\* the direction of the step p[j-1] -> p[j] (0-based j >= 1)
StepDirection(pts, j) == Dir(getCurrentDirections(At(pts, j), At(pts, j - 1)))

\* the tracked state after point j was considered: seeded by the first step,
\* replaced by the direction of a step each time its end point is retained
RECURSIVE Tracked(_, _)
Tracked(pts, j) ==
    IF j <= 1 THEN StepDirection(pts, 1)
    ELSE IF StepDirection(pts, j) # Tracked(pts, j - 1)
         THEN StepDirection(pts, j)
         ELSE Tracked(pts, j - 1)

\* the positions the claim says are output
ExpectedKept(pts) ==
    {0, 1}
    \cup {j \in 2..(Len(pts) - 1) : StepDirection(pts, j) # Tracked(pts, j - 1)}
    \cup {Len(pts) - 1}

KeptPositions(out, inp) == {Pos(inp, out[m]) - 1 : m \in 1..Len(out)}

\* C4: for n >= 3 the output is points 0 and 1, every point i >= 2 whose step
\* direction differs (on latitude or longitude) from the tracked state, and
\* the last point, in order and nothing else; on the 7-point fixture that is
\* input points 0, 1, 5 and 6.
C4_WalkRetainsOnChange ==
    /\ (Done /\ Len(points) >= 3) =>
           /\ IsSubsequence(result, points)
           /\ KeptPositions(result, points) = ExpectedKept(points)
    /\ (Done /\ pass = 1 /\ points = Fixture) =>
           Positions(result, points) = <<0, 1, 5, 6>>

\* the fixture was reduced, its last point appended after the walk
C4_Witness ==
    /\ Done /\ pass = 1 /\ points = Fixture
    /\ Len(reducedPoints) = 3 /\ Len(result) = 4

\* C5 as stated: on the fixture the output is input points 0, 1, 4 and 6
\* (the point preceding the flip is the one retained).
C5_FixtureKeepsPrecedingPoint ==
    (Done /\ pass = 1 /\ points = Fixture) =>
        Positions(result, points) = <<0, 1, 4, 6>>

\* C5 amended: on the fixture the output is exactly input points 0, 1, 5 and
\* 6: point 5, the end of the first step whose direction differs, is
\* retained, and point 4, the last point of the run that ends, is dropped.
C5_FixtureKeepsFlipPoint ==
    (Done /\ pass = 1 /\ points = Fixture) =>
        /\ Len(result) = 4
        /\ result = <<Fixture[1], Fixture[2], Fixture[6], Fixture[7]>>
        /\ StepDirection(Fixture, 5) # StepDirection(Fixture, 4)
        /\ Fixture[5] \notin Range(result)

C5_Witness ==
    Done /\ pass = 1 /\ points = Fixture /\ Fixture[6] \in Range(result)

\* C6 as stated: reduce(reduce(points)) = reduce(points).
C6_Idempotent == (Done /\ pass = 2) => result = firstResult

\* C6 amended: reduce(reduce(points)) is a subsequence of reduce(points) in
\* the same order that keeps its first two points and its last point; it
\* equals reduce(points) whenever reduce(points) has at most 3 points.
C6_SecondPassShrinks ==
    (Done /\ pass = 2) =>
        /\ IsSubsequence(result, firstResult)
        /\ At(result, 0) = At(firstResult, 0)
        /\ At(result, 1) = At(firstResult, 1)
        /\ At(result, Len(result) - 1) = At(firstResult, Len(firstResult) - 1)
        /\ (Len(firstResult) <= 3 => result = firstResult)

\* a second pass that dropped a point the first pass had retained
C6_Witness == Done /\ pass = 2 /\ Len(result) < Len(firstResult)

\* C7: an input of 0, 1 or 2 points is returned element for element, and no
\* coordinate is inspected.
C7_ShortInputUnchanged ==
    (Done /\ Len(points) <= 2) => (result = points /\ inspections = 0)

\* two points, one of them with a missing latitude, returned as they are
C7_Witness ==
    /\ Done /\ pass = 1 /\ Len(points) = 2
    /\ points[1].lat = JsUndefined
    /\ result = points

\* C8: the call never raises, whatever the coordinates are: it is never in
\* the thrown state; it is entering, walking with its index within the
\* array (so the walk ends), or returned, and what it returns is a sequence
\* of input points.
C8_NeverRaises ==
    /\ pc # "thrown"
    /\ pc \in {"call", "loop", "done"}
    /\ (pc = "loop" => (2 <= i /\ i <= Len(points)))
    /\ (Done => Range(result) \subseteq Range(points))

\* a returned call whose walk compared malformed coordinates
C8_Witness ==
    /\ Done /\ pass = 1 /\ Len(points) >= 3 /\ inspections >= 2
    /\ \E j \in 1..Len(points) : parseFloat(points[j].lat).nan
    /\ \E j \in 1..Len(points) : parseFloat(points[j].lat).v > 90 * Micro
    /\ \E j \in 1..Len(points) : points[j].lat = JsUndefined

----------------------------------------------------------------------------
(* statistics.ts: calculateDistance and calculateBearing *)

Ok(v) == [err |-> "none", v |-> v]
Err(e) == [err |-> e, v |-> 0]

Abs(x) == IF x < 0 THEN -x ELSE x

\* a / b rounded to the nearest integer, halves away from zero (toFixed)
RoundDiv(a, b) ==
    IF a >= 0 THEN (2 * a + b) \div (2 * b) ELSE -((2 * (-a) + b) \div (2 * b))

\* x.toFixed(2) of a value held in micro units, still in micro units
ToFixed2(x) == RoundDiv(x, 10000) * 10000

\* a distance read off the coordinates as if they were plane ones
HaversineCoordinateDifference(lat1, lon1, lat2, lon2) ==
    Abs(lat2 - lat1) + Abs(lon2 - lon1)

\* the same without the absolute values
HaversineSignedDifference(lat1, lon1, lat2, lon2) ==
    (lat2 - lat1) + (lon2 - lon1)

\* lines 96-118 on in-range coordinates (micro-degrees): the haversine
\* distance, rounded to 6 decimals, in micro nautical miles.  The values are
\* those the source's formula gives on the coordinates the model draws:
\* every pair of points of one neighbourhood (around the origin, at either
\* pole, on the antimeridian) or of one track of the statistics.
Haversine(lat1, lon1, lat2, lon2) ==
    LET key == <<lat1, lon1, lat2, lon2>>
    IN  CASE key = <<0, 0, 0, 0>> -> 0
          [] key = <<0, 0, 1000000, 0>> -> 60040540
          [] key = <<0, 0, 0, 1000000>> -> 60040540
          [] key = <<0, 0, 1000000, 1000000>> -> 84907991
          [] key = <<0, 0, 1000001, 0>> -> 60040600
          [] key = <<1000000, 0, 0, 0>> -> 60040540
          [] key = <<1000000, 0, 1000000, 0>> -> 0
          [] key = <<1000000, 0, 0, 1000000>> -> 84907991
          [] key = <<1000000, 0, 1000000, 1000000>> -> 60031395
          [] key = <<1000000, 0, 1000001, 0>> -> 60
          [] key = <<0, 1000000, 0, 0>> -> 60040540
          [] key = <<0, 1000000, 1000000, 0>> -> 84907991
          [] key = <<0, 1000000, 0, 1000000>> -> 0
          [] key = <<0, 1000000, 1000000, 1000000>> -> 60040540
          [] key = <<0, 1000000, 1000001, 0>> -> 84908033
          [] key = <<1000000, 1000000, 0, 0>> -> 84907991
          [] key = <<1000000, 1000000, 1000000, 0>> -> 60031395
          [] key = <<1000000, 1000000, 0, 1000000>> -> 60040540
          [] key = <<1000000, 1000000, 1000000, 1000000>> -> 0
          [] key = <<1000000, 1000000, 1000001, 0>> -> 60031395
          [] key = <<1000001, 0, 0, 0>> -> 60040600
          [] key = <<1000001, 0, 1000000, 0>> -> 60
          [] key = <<1000001, 0, 0, 1000000>> -> 84908033
          [] key = <<1000001, 0, 1000000, 1000000>> -> 60031395
          [] key = <<1000001, 0, 1000001, 0>> -> 0
          [] key = <<90000000, 0, 90000000, 0>> -> 0
          [] key = <<90000000, 0, 90000000, 1000000>> -> 0
          [] key = <<90000000, 0, 89000000, 0>> -> 60040540
          [] key = <<90000000, 1000000, 90000000, 0>> -> 0
          [] key = <<90000000, 1000000, 90000000, 1000000>> -> 0
          [] key = <<90000000, 1000000, 89000000, 0>> -> 60040540
          [] key = <<89000000, 0, 90000000, 0>> -> 60040540
          [] key = <<89000000, 0, 90000000, 1000000>> -> 60040540
          [] key = <<89000000, 0, 89000000, 0>> -> 0
          [] key = <<-90000000, 0, -90000000, 0>> -> 0
          [] key = <<-90000000, 0, -89000000, 0>> -> 60040540
          [] key = <<-89000000, 0, -90000000, 0>> -> 60040540
          [] key = <<-89000000, 0, -89000000, 0>> -> 0
          [] key = <<0, 180000000, 0, 180000000>> -> 0
          [] key = <<0, 180000000, 0, -180000000>> -> 0
          [] key = <<0, 180000000, 0, 179000000>> -> 60040540
          [] key = <<0, -180000000, 0, 180000000>> -> 0
          [] key = <<0, -180000000, 0, -180000000>> -> 0
          [] key = <<0, -180000000, 0, 179000000>> -> 60040540
          [] key = <<0, 179000000, 0, 180000000>> -> 60040540
          [] key = <<0, 179000000, 0, -180000000>> -> 60040540
          [] key = <<0, 179000000, 0, 179000000>> -> 0
          [] key = <<0, 0, 2000125, 17467>> -> 120093163
          [] key = <<0, 0, 3000000, 43667>> -> 180140683
          [] key = <<0, 0, 4000000, 96167>> -> 240231445
          [] key = <<1000000, 0, 2000125, 17467>> -> 60057196
          [] key = <<1000000, 0, 3000000, 43667>> -> 120109660
          [] key = <<1000000, 0, 4000000, 96167>> -> 180213943
          [] key = <<2000125, 17467, 0, 0>> -> 120093163
          [] key = <<2000125, 17467, 1000000, 0>> -> 60057196
          [] key = <<2000125, 17467, 2000125, 17467>> -> 0
          [] key = <<2000125, 17467, 3000000, 43667>> -> 60053601
          [] key = <<2000125, 17467, 4000000, 96167>> -> 120166249
          [] key = <<3000000, 43667, 0, 0>> -> 180140683
          [] key = <<3000000, 43667, 1000000, 0>> -> 120109660
          [] key = <<3000000, 43667, 2000125, 17467>> -> 60053601
          [] key = <<3000000, 43667, 3000000, 43667>> -> 0
          [] key = <<3000000, 43667, 4000000, 96167>> -> 60122916
          [] key = <<4000000, 96167, 0, 0>> -> 240231445
          [] key = <<4000000, 96167, 1000000, 0>> -> 180213943
          [] key = <<4000000, 96167, 2000125, 17467>> -> 120166249
          [] key = <<4000000, 96167, 3000000, 43667>> -> 60122916
          [] key = <<4000000, 96167, 4000000, 96167>> -> 0
          [] key = <<0, 0, 1000000, -7000>> -> 60042011
          [] key = <<0, 0, 2000000, -3500>> -> 120081264
          [] key = <<1000000, -7000, 0, 0>> -> 60042011
          [] key = <<1000000, -7000, 1000000, -7000>> -> 0
          [] key = <<1000000, -7000, 2000000, -3500>> -> 60040908
          [] key = <<2000000, -3500, 0, 0>> -> 120081264
          [] key = <<2000000, -3500, 1000000, -7000>> -> 60040908
          [] key = <<2000000, -3500, 2000000, -3500>> -> 0

\* lines 167-177 on two different in-range points: toDeg(Math.atan2(y, x)),
\* in micro-degrees, between -180 and 180 degrees
BearingDegrees(lat1, lon1, lat2, lon2) ==
    LET key == <<lat1, lon1, lat2, lon2>>
    IN  CASE key = <<0, 0, 1000000, 0>> -> 0
          [] key = <<0, 0, 0, 1000000>> -> 90000000
          [] key = <<0, 0, 1000000, 1000000>> -> 44995636
          [] key = <<0, 0, 1000001, 0>> -> 0
          [] key = <<1000000, 0, 0, 0>> -> 180000000
          [] key = <<1000000, 0, 0, 1000000>> -> 134995636
          [] key = <<1000000, 0, 1000000, 1000000>> -> 89991274
          [] key = <<1000000, 0, 1000001, 0>> -> 0
          [] key = <<0, 1000000, 0, 0>> -> -90000000
          [] key = <<0, 1000000, 1000000, 0>> -> -44995636
          [] key = <<0, 1000000, 1000000, 1000000>> -> 0
          [] key = <<0, 1000000, 1000001, 0>> -> -44995608
          [] key = <<1000000, 1000000, 0, 0>> -> -134995636
          [] key = <<1000000, 1000000, 1000000, 0>> -> -89991274
          [] key = <<1000000, 1000000, 0, 1000000>> -> 180000000
          [] key = <<1000000, 1000000, 1000001, 0>> -> -89991216
          [] key = <<1000001, 0, 0, 0>> -> 180000000
          [] key = <<1000001, 0, 1000000, 0>> -> 180000000
          [] key = <<1000001, 0, 0, 1000000>> -> 134995665
          [] key = <<1000001, 0, 1000000, 1000000>> -> 89991331
          [] key = <<90000000, 0, 90000000, 1000000>> -> 89500000
          [] key = <<90000000, 0, 89000000, 0>> -> 180000000
          [] key = <<90000000, 1000000, 90000000, 0>> -> -89500000
          [] key = <<90000000, 1000000, 89000000, 0>> -> -179000000
          [] key = <<89000000, 0, 90000000, 0>> -> 0
          [] key = <<89000000, 0, 90000000, 1000000>> -> 0
          [] key = <<-90000000, 0, -89000000, 0>> -> 0
          [] key = <<-89000000, 0, -90000000, 0>> -> 180000000
          [] key = <<0, 180000000, 0, -180000000>> -> 90000000
          [] key = <<0, 180000000, 0, 179000000>> -> -90000000
          [] key = <<0, -180000000, 0, 180000000>> -> -90000000
          [] key = <<0, -180000000, 0, 179000000>> -> -90000000
          [] key = <<0, 179000000, 0, 180000000>> -> 90000000
          [] key = <<0, 179000000, 0, -180000000>> -> 90000000
          [] key = <<0, 0, 2000125, 17467>> -> 500145
          [] key = <<0, 0, 3000000, 43667>> -> 833157
          [] key = <<0, 0, 4000000, 96167>> -> 1374988
          [] key = <<1000000, 0, 2000125, 17467>> -> 1000000
          [] key = <<1000000, 0, 3000000, 43667>> -> 1249308
          [] key = <<1000000, 0, 4000000, 96167>> -> 1832391
          [] key = <<2000125, 17467, 0, 0>> -> -179499550
          [] key = <<2000125, 17467, 1000000, 0>> -> -178999543
          [] key = <<2000125, 17467, 3000000, 43667>> -> 1499013
          [] key = <<2000125, 17467, 4000000, 96167>> -> 2248536
          [] key = <<3000000, 43667, 0, 0>> -> -179165699
          [] key = <<3000000, 43667, 1000000, 0>> -> -178749167
          [] key = <<3000000, 43667, 2000125, 17467>> -> -178499844
          [] key = <<3000000, 43667, 4000000, 96167>> -> 2998110
          [] key = <<4000000, 96167, 0, 0>> -> -178621654
          [] key = <<4000000, 96167, 1000000, 0>> -> -178163413
          [] key = <<4000000, 96167, 2000125, 17467>> -> -177747344
          [] key = <<4000000, 96167, 3000000, 43667>> -> -176998685
          [] key = <<0, 0, 1000000, -7000>> -> -401023
          [] key = <<0, 0, 2000000, -3500>> -> -100227
          [] key = <<1000000, -7000, 0, 0>> -> 179598916
          [] key = <<1000000, -7000, 2000000, -3500>> -> 200422
          [] key = <<2000000, -3500, 0, 0>> -> 179899712
          [] key = <<2000000, -3500, 1000000, -7000>> -> -179799486

\* a variant that returns the angle as atan2 gives it
InitialBearingUnnormalised(lat1, lon1, lat2, lon2) ==
    BearingDegrees(lat1, lon1, lat2, lon2)

\* line 178: (bearing + 360) % 360
InitialBearing(lat1, lon1, lat2, lon2) ==
    (BearingDegrees(lat1, lon1, lat2, lon2) + 360 * Micro) % (360 * Micro)

\* typeof p.lat === "undefined" and the like
MissingCoordinate(p) == p.lat.t = "undefined" \/ p.lon.t = "undefined"

\* a variant that tests the longitudes before the latitudes
ValidationErrorLongitudeFirst(point1, point2) ==
    IF \/ ~Truthy(point1) \/ ~Truthy(point2)
       \/ MissingCoordinate(point1) \/ MissingCoordinate(point2)
    THEN "Invalid points"
    ELSE LET lat1 == parseFloat(point1.lat)
             lon1 == parseFloat(point1.lon)
             lat2 == parseFloat(point2.lat)
             lon2 == parseFloat(point2.lon)
         IN  IF lat1.nan \/ lon1.nan \/ lat2.nan \/ lon2.nan
             THEN "Invalid coordinate values"
             ELSE IF Abs(lon1.v) > 180 * Micro \/ Abs(lon2.v) > 180 * Micro
             THEN "Longitude out of range"
             ELSE IF Abs(lat1.v) > 90 * Micro \/ Abs(lat2.v) > 90 * Micro
             THEN "Latitude out of range"
             ELSE "none"

\* a variant whose bounds are exclusive
ValidationErrorExclusive(point1, point2) ==
    IF \/ ~Truthy(point1) \/ ~Truthy(point2)
       \/ MissingCoordinate(point1) \/ MissingCoordinate(point2)
    THEN "Invalid points"
    ELSE LET lat1 == parseFloat(point1.lat)
             lon1 == parseFloat(point1.lon)
             lat2 == parseFloat(point2.lat)
             lon2 == parseFloat(point2.lon)
         IN  IF lat1.nan \/ lon1.nan \/ lat2.nan \/ lon2.nan
             THEN "Invalid coordinate values"
             ELSE IF Abs(lat1.v) >= 90 * Micro \/ Abs(lat2.v) >= 90 * Micro
             THEN "Latitude out of range"
             ELSE IF Abs(lon1.v) >= 180 * Micro \/ Abs(lon2.v) >= 180 * Micro
             THEN "Longitude out of range"
             ELSE "none"

\* lines 63-94 (and 129-160): what the validation throws, or "none"
ValidationError(point1, point2) ==
    IF \/ ~Truthy(point1) \/ ~Truthy(point2)
       \/ MissingCoordinate(point1) \/ MissingCoordinate(point2)
    THEN "Invalid points"
    ELSE LET lat1 == parseFloat(point1.lat)
             lon1 == parseFloat(point1.lon)
             lat2 == parseFloat(point2.lat)
             lon2 == parseFloat(point2.lon)
         IN  IF lat1.nan \/ lon1.nan \/ lat2.nan \/ lon2.nan
             THEN "Invalid coordinate values"
             ELSE IF Abs(lat1.v) > 90 * Micro \/ Abs(lat2.v) > 90 * Micro
             THEN "Latitude out of range"
             ELSE IF Abs(lon1.v) > 180 * Micro \/ Abs(lon2.v) > 180 * Micro
             THEN "Longitude out of range"
             ELSE "none"

calculateDistance(point1, point2) ==
    LET e == ValidationError(point1, point2)
    IN  IF e # "none" THEN Err(e)
        ELSE Ok(Haversine(parseFloat(point1.lat).v, parseFloat(point1.lon).v,
                          parseFloat(point2.lat).v, parseFloat(point2.lon).v))

\* a variant that takes the same-point shortcut before it validates
calculateBearingShortcutFirst(point1, point2) ==
    LET same == /\ Truthy(point1) /\ Truthy(point2)
                /\ ~parseFloat(point1.lat).nan /\ ~parseFloat(point1.lon).nan
                /\ parseFloat(point1.lat) = parseFloat(point2.lat)
                /\ parseFloat(point1.lon) = parseFloat(point2.lon)
        e == ValidationError(point1, point2)
    IN  IF same THEN Ok(0)
        ELSE IF e # "none" THEN Err(e)
        ELSE Ok(InitialBearing(parseFloat(point1.lat).v,
                               parseFloat(point1.lon).v,
                               parseFloat(point2.lat).v,
                               parseFloat(point2.lon).v))

calculateBearing(point1, point2) ==
    LET e == ValidationError(point1, point2)
        lat1 == parseFloat(point1.lat)
        lon1 == parseFloat(point1.lon)
        lat2 == parseFloat(point2.lat)
        lon2 == parseFloat(point2.lon)
    IN  IF e # "none" THEN Err(e)
        ELSE IF lat1.v = lat2.v /\ lon1.v = lon2.v THEN Ok(0)
        ELSE Ok(InitialBearing(lat1.v, lon1.v, lat2.v, lon2.v))

----------------------------------------------------------------------------
(* statistics.ts: calculateRouteStatistics *)

JsArray(elems) == [kind |-> "array", elems |-> elems]
JsNull == [kind |-> "null", elems |-> <<>>]
\* a value that is neither null nor an array (a number, a plain object)
NonArray == [kind |-> "other", elems |-> <<>>]

\* !a || !Array.isArray(a) || a.length === 0
InvalidArray(a) == a.kind # "array" \/ Len(a.elems) = 0

\* a default record that still counts one original point
DefaultStatsCountingOne ==
    [kind |-> "record", originalPoints |-> 1, reducedPoints |-> 0,
     reduction |-> 0, straightLineDistance |-> 0, boatDistance |-> 0,
     directionChanges |-> 0, directions |-> <<>>, totalHours |-> Num(0),
     maxSpeed |-> 0]

\* lines 192-206.  Distances in micro-nm, reduction in hundredths of a
\* percent, totalHours in hundredths of an hour, maxSpeed in micro-knots.
DefaultStats ==
    [kind |-> "record", originalPoints |-> 0, reducedPoints |-> 0,
     reduction |-> 0, straightLineDistance |-> 0, boatDistance |-> 0,
     directionChanges |-> 0, directions |-> <<>>, totalHours |-> Num(0),
     maxSpeed |-> 0]

\* the try of line 208 encloses every step of the computation: whatever one
\* of them throws reaches the catch of line 336
CaughtOutsideStraightLine(step) == step # "straight"
CaughtByOuterTry(step) == TRUE

\* a step threw: the catch of lines 336-339 returns the default record
Raise(step) ==
    IF CaughtByOuterTry(step)
    THEN /\ stats' = DefaultStats
         /\ statsId' = defaultId
         /\ spc' = "done"
    ELSE /\ stats' = stats
         /\ statsId' = statsId
         /\ spc' = "thrown"

\* the truthiness of a coordinate-like value
JsTruthy(x) ==
    CASE x.t = "string" -> Len(x.s) > 0
      [] x.t = "number" -> ~x.num.nan /\ x.num.v # 0
      [] OTHER -> FALSE

\* lines 311-319 from element j (1-based) on, with the maximum so far
RECURSIVE ScanSpeed(_, _, _)
ScanSpeed(elems, j, best) ==
    IF j > Len(elems) THEN Ok(best)
    ELSE IF ~Truthy(elems[j]) THEN Err("TypeError")
    ELSE LET speed == parseFloat(elems[j].speed)
         IN  IF JsTruthy(elems[j].speed) /\ ~speed.nan /\ speed.v > best
             THEN ScanSpeed(elems, j + 1, speed.v)
             ELSE ScanSpeed(elems, j + 1, best)

\* a variant in which defaultStats is one object of the module
DefaultStatsIdOfModule(fresh) == 1

\* line 192: the object literal is evaluated in each call
DefaultStatsId(fresh) == fresh

\* lines 192-230: defaultStats, and the validation of the two arguments
StatsEnter ==
    /\ spc = "call"
    /\ IF InvalidArray(originalArg) \/ InvalidArray(reducedArg)
       THEN /\ stats' = DefaultStats
            /\ statsId' = DefaultStatsId(nextId)
            /\ spc' = "done"
       ELSE /\ stats' = stats
            /\ statsId' = statsId
            /\ spc' = "straight"
    /\ UNCHANGED <<originalArg, reducedArg, statI, straightLineDistance,
                   boatDistance, skipped, directionChanges, segments,
                   previousBearing, totalHours, maxSpeed>>
    /\ UNCHANGED reduceVars
    /\ UNCHANGED geoVars
    /\ UNCHANGED pairVars
    /\ defaultId' = DefaultStatsId(nextId)
    /\ heap' = heap @@ (DefaultStatsId(nextId) :>
                           [value |-> DefaultStats,
                            nested |-> {nextId + 1, nextId + 2}])
    /\ nextId' = nextId + 3
    /\ UNCHANGED <<pointsId, resultId, directionsId>>
    /\ UNCHANGED fileVars

\* lines 232-243: the straight-line distance, first to last original point
StatsStraightLine ==
    /\ spc = "straight"
    /\ LET o == originalArg.elems
           d == calculateDistance(At(o, 0), At(o, Len(o) - 1))
       IN  IF Len(o) >= 2 /\ d.err # "none"
           THEN /\ Raise("straight")
                /\ UNCHANGED <<straightLineDistance, statI>>
           ELSE /\ straightLineDistance' = IF Len(o) >= 2 THEN d.v ELSE 0
                /\ statI' = 1
                /\ spc' = "boat"
                /\ stats' = stats
                /\ statsId' = statsId
    /\ UNCHANGED <<originalArg, reducedArg, boatDistance, skipped,
                   directionChanges, segments, previousBearing, totalHours,
                   maxSpeed>>
    /\ UNCHANGED reduceVars
    /\ UNCHANGED geoVars
    /\ UNCHANGED pairVars
    /\ UNCHANGED <<nextId, pointsId, resultId, defaultId, directionsId, heap>>
    /\ UNCHANGED fileVars

\* lines 244-256: one iteration of the sum over the original pairs
StatsBoatStep ==
    /\ spc = "boat"
    /\ Len(originalArg.elems) >= 2
    /\ statI < Len(originalArg.elems)
    /\ LET o == originalArg.elems
           d == calculateDistance(At(o, statI - 1), At(o, statI))
       IN  IF d.err # "none"
           THEN /\ skipped' = skipped \cup {statI}
                /\ boatDistance' = boatDistance
           ELSE /\ boatDistance' = boatDistance + d.v
                /\ skipped' = skipped
    /\ statI' = statI + 1
    /\ UNCHANGED <<originalArg, reducedArg, spc, straightLineDistance,
                   directionChanges, segments, previousBearing, totalHours,
                   maxSpeed, stats>>
    /\ UNCHANGED reduceVars
    /\ UNCHANGED geoVars
    /\ UNCHANGED pairVars
    /\ UNCHANGED heapVars
    /\ UNCHANGED fileVars

\* lines 259-264: the sum is over; the locals of the segment loop
StatsSegmentsStart ==
    /\ spc = "boat"
    /\ (Len(originalArg.elems) < 2 \/ statI >= Len(originalArg.elems))
    /\ spc' = "segments"
    /\ statI' = 1
    /\ directionChanges' = 0
    /\ segments' = <<>>
    /\ previousBearing' = [isNull |-> TRUE, v |-> 0]
    /\ UNCHANGED <<originalArg, reducedArg, straightLineDistance, boatDistance,
                   skipped, totalHours, maxSpeed, stats>>
    /\ UNCHANGED reduceVars
    /\ UNCHANGED geoVars
    /\ UNCHANGED pairVars
    /\ directionsId' = nextId
    /\ nextId' = nextId + 1
    /\ UNCHANGED <<pointsId, resultId, defaultId, statsId, heap>>
    /\ UNCHANGED fileVars

\* a variant that counts a difference of 1 as well
BearingChangedFromOne(bearing, previous) == Abs(bearing - previous) >= 1 * Micro

\* Math.abs(bearing - previousBearing) > 1
BearingChanged(bearing, previous) == Abs(bearing - previous) > 1 * Micro

\* lines 266-294: one iteration over the reduced pairs
StatsSegmentStep ==
    /\ spc = "segments"
    /\ Len(reducedArg.elems) >= 2
    /\ statI < Len(reducedArg.elems)
    /\ LET startPoint == At(reducedArg.elems, statI - 1)
           endPoint == At(reducedArg.elems, statI)
           bearing == calculateBearing(startPoint, endPoint)
           segmentLength == calculateDistance(startPoint, endPoint)
       IN  IF bearing.err # "none" \/ segmentLength.err # "none"
           THEN UNCHANGED <<segments, directionChanges, previousBearing>>
           ELSE /\ segments' = Append(segments,
                                      [direction |-> bearing.v,
                                       length |-> ToFixed2(segmentLength.v)])
                /\ directionChanges' =
                       IF ~previousBearing.isNull
                          /\ BearingChanged(bearing.v, previousBearing.v)
                       THEN directionChanges + 1
                       ELSE directionChanges
                /\ previousBearing' = [isNull |-> FALSE, v |-> bearing.v]
    /\ statI' = statI + 1
    /\ UNCHANGED <<originalArg, reducedArg, spc, straightLineDistance,
                   boatDistance, skipped, totalHours, maxSpeed, stats>>
    /\ UNCHANGED reduceVars
    /\ UNCHANGED geoVars
    /\ UNCHANGED pairVars
    /\ UNCHANGED heapVars
    /\ UNCHANGED fileVars

\* lines 297-308: the hours from the first to the last original point
\* (held in milliseconds until the record is built)
StatsTotalHours ==
    /\ spc = "segments"
    /\ (Len(reducedArg.elems) < 2 \/ statI >= Len(reducedArg.elems))
    /\ LET o == originalArg.elems
           first == At(o, 0)
           lastPoint == At(o, Len(o) - 1)
       IN  IF Len(o) >= 2 /\ (~Truthy(first)
                              \/ (first.time.present /\ ~Truthy(lastPoint)))
           THEN /\ Raise("time")
                /\ UNCHANGED totalHours
           ELSE /\ totalHours' =
                       IF Len(o) >= 2 /\ first.time.present
                          /\ lastPoint.time.present
                       THEN IF first.time.ms.nan \/ lastPoint.time.ms.nan
                            THEN NaN
                            ELSE Num(lastPoint.time.ms.v - first.time.ms.v)
                       ELSE Num(0)
                /\ spc' = "speed"
                /\ stats' = stats
                /\ statsId' = statsId
    /\ UNCHANGED <<originalArg, reducedArg, statI, straightLineDistance,
                   boatDistance, skipped, directionChanges, segments,
                   previousBearing, maxSpeed>>
    /\ UNCHANGED reduceVars
    /\ UNCHANGED geoVars
    /\ UNCHANGED pairVars
    /\ UNCHANGED <<nextId, pointsId, resultId, defaultId, directionsId, heap>>
    /\ UNCHANGED fileVars

\* lines 310-319: the maximum speed over the original points
StatsMaxSpeed ==
    /\ spc = "speed"
    /\ LET s == ScanSpeed(originalArg.elems, 1, 0)
       IN  IF s.err # "none"
           THEN /\ Raise("speed")
                /\ UNCHANGED maxSpeed
           ELSE /\ maxSpeed' = s.v
                /\ spc' = "return"
                /\ stats' = stats
                /\ statsId' = statsId
    /\ UNCHANGED <<originalArg, reducedArg, statI, straightLineDistance,
                   boatDistance, skipped, directionChanges, segments,
                   previousBearing, totalHours>>
    /\ UNCHANGED reduceVars
    /\ UNCHANGED geoVars
    /\ UNCHANGED pairVars
    /\ UNCHANGED <<nextId, pointsId, resultId, defaultId, directionsId, heap>>
    /\ UNCHANGED fileVars

\* lines 321-335: the record
StatsReturn ==
    /\ spc = "return"
    /\ LET originalLength == Len(originalArg.elems)
           reducedLength == Len(reducedArg.elems)
       IN  stats' =
               [kind |-> "record",
                originalPoints |-> originalLength,
                reducedPoints |-> reducedLength,
                reduction |-> RoundDiv((originalLength - reducedLength) * 10000,
                                       originalLength),
                straightLineDistance |-> ToFixed2(straightLineDistance),
                boatDistance |-> ToFixed2(boatDistance),
                directionChanges |-> directionChanges,
                directions |-> segments,
                totalHours |-> IF totalHours.nan THEN NaN
                               ELSE Num(RoundDiv(totalHours.v * 100, 3600000)),
                maxSpeed |-> ToFixed2(maxSpeed)]
    /\ spc' = "done"
    /\ UNCHANGED <<originalArg, reducedArg, statI, straightLineDistance,
                   boatDistance, skipped, directionChanges, segments,
                   previousBearing, totalHours, maxSpeed>>
    /\ UNCHANGED reduceVars
    /\ UNCHANGED geoVars
    /\ UNCHANGED pairVars
    /\ statsId' = nextId
    /\ heap' = heap @@ (nextId :> [value |-> stats',
                                   nested |-> {directionsId, nextId + 1}])
    /\ nextId' = nextId + 2
    /\ UNCHANGED <<pointsId, resultId, defaultId, directionsId>>
    /\ UNCHANGED fileVars

----------------------------------------------------------------------------
(* The inputs of the statistics *)

\* points the arrays are drawn from: three valid ones (numbers and a numeric
\* string), a non-numeric latitude, a missing longitude, a latitude out of
\* range, and null
StatPool ==
    << TrackPoint(0, JsNumber(0), JsNumber(0), TimeAt(Num(0)),
                  JsString(<<"5", ".", "5">>)),
       TrackPoint(0, JsString(<<"1", ".", "0">>), JsNumber(0),
                  TimeAt(Num(5400000)), JsUndefined),
       TrackPoint(0, JsNumber(0), JsNumber(1 * Micro), NoTime,
                  JsString(<<"a", "b", "c">>)),
       TrackPoint(0, JsString(<<"a", "b", "c">>), JsNumber(0),
                  TimeAt(Num(3600000)), JsString(<<"7", ".", "2", "5">>)),
       TrackPoint(0, JsNumber(0), JsUndefined, NoTime, JsUndefined),
       TrackPoint(0, JsNumber(91 * Micro), JsNumber(0), NoTime, JsUndefined),
       Null >>

\* an array of the pool's elements, each object one of its own
MkTrack(ix) ==
    [j \in 1..Len(ix) |->
        IF Truthy(StatPool[ix[j]]) THEN [StatPool[ix[j]] EXCEPT !.ref = j]
        ELSE StatPool[ix[j]]]

StatOriginals ==
    {JsNull, NonArray}
    \cup { JsArray(MkTrack(ix)) :
             ix \in UNION { [1..n -> 1..Len(StatPool)] : n \in 0..MaxStatLen } }

NorthEastPoint ==
    TrackPoint(0, JsNumber(1 * Micro), JsNumber(1 * Micro), NoTime, JsUndefined)

\* a point without time or speed, its coordinates numbers (micro-degrees)
Waypoint(ref, lat, lon) ==
    TrackPoint(ref, JsNumber(lat), JsNumber(lon), NoTime, JsUndefined)

\* a track whose segments head 0, 1 (0.9999998 in doubles), 1.499 and 2.998
\* degrees
VeeringTrack ==
    << Waypoint(1, 0, 0), Waypoint(2, 1000000, 0),
       Waypoint(3, 2000125, 17467), Waypoint(4, 3000000, 43667),
       Waypoint(5, 4000000, 96167) >>

\* a track whose third point is malformed: north, two pairs that do not
\* compute, then south
InterruptedTrack ==
    << [StatPool[1] EXCEPT !.ref = 1], [StatPool[2] EXCEPT !.ref = 2],
       [StatPool[4] EXCEPT !.ref = 3], [NorthEastPoint EXCEPT !.ref = 4],
       [StatPool[3] EXCEPT !.ref = 5] >>

\* a track whose segments head 359.599 and then 0.200 degrees
NorthWrapTrack ==
    << Waypoint(1, 0, 0), Waypoint(2, 1000000, -7000),
       Waypoint(3, 2000000, -3500) >>

\* the reduced arguments: invalid ones, one point, a track that turns, a
\* track with a malformed point in the middle, a track holding null, a
\* track that veers slowly, a track interrupted by a malformed point, a
\* track that crosses north
StatReduced ==
    { JsNull, NonArray, JsArray(<<>>),
      JsArray(MkTrack(<<1>>)),
      JsArray(<<[StatPool[1] EXCEPT !.ref = 1], [StatPool[2] EXCEPT !.ref = 2],
                [NorthEastPoint EXCEPT !.ref = 3]>>),
      JsArray(MkTrack(<<1, 4, 2>>)),
      JsArray(MkTrack(<<1, 7, 2>>)),
      JsArray(VeeringTrack),
      JsArray(InterruptedTrack),
      JsArray(NorthWrapTrack) }

StatsInit ==
    /\ originalArg \in StatOriginals
    /\ reducedArg \in StatReduced
    /\ spc = "call"
    /\ StatsLocalsInit
    /\ points = <<>>
    /\ firstInput = <<>>
    /\ firstResult = <<>>
    /\ pass = 1
    /\ pc = "idle"
    /\ ReduceLocalsInit
    /\ GeoIdle
    /\ PairIdle
    /\ HeapInit
    /\ FileIdle

StatsNext ==
    \/ StatsEnter \/ StatsStraightLine \/ StatsBoatStep \/ StatsSegmentsStart
    \/ StatsSegmentStep \/ StatsTotalHours \/ StatsMaxSpeed \/ StatsReturn

StatsSpec == StatsInit /\ [][StatsNext]_vars

----------------------------------------------------------------------------
(* Claims about calculateRouteStatistics, under StatsSpec *)

StatsDone == spc = "done"

\* C9: calculateRouteStatistics never throws: whatever the two arguments
\* are, the call is never in the thrown state, its loops stay within their
\* arrays, and what it returns is a statistics record.
C9_AlwaysReturnsRecord ==
    /\ spc # "thrown"
    /\ spc \in {"call", "straight", "boat", "segments", "speed", "return", "done"}
    /\ (spc = "boat" => statI <= Len(originalArg.elems) \/ Len(originalArg.elems) < 2)
    /\ (spc = "segments" => statI <= Len(reducedArg.elems) \/ Len(reducedArg.elems) < 2)
    /\ (StatsDone => stats.kind = "record")

\* a call on an array holding null, with a valid reduced array, that returned
C9_Witness ==
    /\ StatsDone
    /\ ~InvalidArray(reducedArg)
    /\ originalArg.kind = "array"
    /\ Len(originalArg.elems) >= 2
    /\ \E j \in 1..Len(originalArg.elems) : originalArg.elems[j] = Null
    /\ stats.kind = "record"

\* the sum of the distances of the consecutive pairs of o, from pair
\* (j-1, j) on (0-based j), that do not touch a malformed point
RECURSIVE SumOfValidPairs(_, _)
SumOfValidPairs(o, j) ==
    IF j >= Len(o) THEN 0
    ELSE (IF Malformed(At(o, j - 1)) \/ Malformed(At(o, j)) THEN 0
          ELSE calculateDistance(At(o, j - 1), At(o, j)).v)
         + SumOfValidPairs(o, j + 1)

\* exactly one element of o is malformed, and every element is an object
OneMalformedPoint(o) ==
    /\ \A j \in 1..Len(o) : Truthy(o[j])
    /\ Cardinality({j \in 1..Len(o) : Malformed(o[j])}) = 1

\* C10 as stated: with a non-empty reduced array and an original array of
\* at least 2 points of which one, at any position, has a missing,
\* non-numeric or out-of-range coordinate, the pairs touching that point are
\* skipped and boatDistance is the rounded sum of the other pairs' distances.
C10_MalformedPointOnlySkipsItsPairs ==
    (/\ StatsDone
     /\ ~InvalidArray(reducedArg)
     /\ originalArg.kind = "array"
     /\ Len(originalArg.elems) >= 2
     /\ OneMalformedPoint(originalArg.elems))
    => stats.boatDistance = ToFixed2(SumOfValidPairs(originalArg.elems, 1))


\* null, not an array, or an empty array
NullNonArrayOrEmpty(a) ==
    a.kind = "null" \/ a.kind = "other" \/ (a.kind = "array" /\ a.elems = <<>>)

\* C11: when either argument of calculateRouteStatistics is null, not an
\* array or empty, whatever the other argument is, the call returns the
\* default record: originalPoints 0, reducedPoints 0, reduction "0.00%",
\* straightLineDistance 0, boatDistance 0, directionChanges 0, directions
\* empty, totalHours 0, maxSpeed 0.
C11_InvalidArgumentGivesDefault ==
    (StatsDone /\ (NullNonArrayOrEmpty(originalArg)
                   \/ NullNonArrayOrEmpty(reducedArg)))
    => /\ stats.kind = "record"
       /\ stats.originalPoints = 0
       /\ stats.reducedPoints = 0
       /\ stats.reduction = 0
       /\ stats.straightLineDistance = 0
       /\ stats.boatDistance = 0
       /\ stats.directionChanges = 0
       /\ stats.directions = <<>>
       /\ stats.totalHours = Num(0)
       /\ stats.maxSpeed = 0

\* a call with a track of valid points and an empty reduced array returned
\* the default record
C11_Witness ==
    /\ StatsDone
    /\ originalArg.kind = "array"
    /\ Len(originalArg.elems) >= 2
    /\ \A j \in 1..Len(originalArg.elems) : ~Malformed(originalArg.elems[j])
    /\ reducedArg = JsArray(<<>>)
    /\ stats.originalPoints = 0
    /\ stats.directions = <<>>


----------------------------------------------------------------------------
(* The geometry and direction functions called on their own *)

\* in-range points, by neighbourhood: numbers and numeric strings, the same
\* place written twice, a latitude one millionth of a degree further north,
\* the two poles with several longitudes, both names of the antimeridian
AroundOrigin ==
    { Point(0, JsNumber(0), JsNumber(0)),
      Point(0, JsNumber(1 * Micro), JsNumber(0)),
      Point(0, JsString(<<"1", ".", "0">>), JsString(<<"0">>)),
      Point(0, JsString(<<"1", ".", "0", "0", "0", "0", "0", "1">>),
            JsNumber(0)),
      Point(0, JsNumber(0), JsNumber(1 * Micro)) }

AroundNorthPole ==
    { Point(0, JsNumber(90 * Micro), JsNumber(0)),
      Point(0, JsString(<<"9", "0">>), JsString(<<"1", ".", "0">>)),
      Point(0, JsNumber(89 * Micro), JsNumber(0)) }

AroundSouthPole ==
    { Point(0, JsNumber(-(90 * Micro)), JsNumber(0)),
      Point(0, JsString(<<"-", "8", "9">>), JsNumber(0)) }

AroundAntimeridian ==
    { Point(0, JsNumber(0), JsNumber(180 * Micro)),
      Point(0, JsNumber(0), JsString(<<"-", "1", "8", "0">>)),
      Point(0, JsNumber(0), JsNumber(179 * Micro)) }

Neighbourhoods ==
    {AroundOrigin, AroundNorthPole, AroundSouthPole, AroundAntimeridian}

\* what is not a usable point: no point at all, a missing coordinate, a
\* coordinate that does not parse, a coordinate out of range, and points
\* with two of these defects
Unusable ==
    { Null, Undefined,
      Point(0, JsUndefined, JsNumber(0)),
      Point(0, JsNumber(0), JsUndefined),
      Point(0, JsString(<<"a", "b", "c">>), JsNumber(0)),
      Point(0, JsNumber(0), JsNullValue),
      Point(0, JsNumber(91 * Micro), JsNumber(0)),
      Point(0, JsString(<<"-", "9", "0", ".", "0", "0", "0", "0", "0", "1">>),
            JsNumber(0)),
      Point(0, JsNumber(0), JsNumber(181 * Micro)),
      Point(0, JsNumber(0),
            JsString(<<"-", "1", "8", "0", ".", "0", "0", "0", "0", "0", "1">>)),
      Point(0, JsNumber(91 * Micro), JsNumber(181 * Micro)),
      Point(0, JsString(<<"a", "b", "c">>), JsNumber(181 * Micro)) }

\* the direction states passed to hasDirectionChanged
DirectionStates ==
    { DirectionState(lat, lon) : lat \in {-1, 0, 1}, lon \in {-1, 0, 1} }
    \cup {NoDirectionState}

\* two points of one neighbourhood or unusable, and a direction state
GeoInit ==
    /\ \E n \in Neighbourhoods :
          /\ argPoint1 \in n \cup Unusable
          /\ argPoint2 \in n \cup Unusable
    /\ argDirections \in DirectionStates
    /\ gpc = "distance"
    /\ GeoOutputsInit
    /\ points = <<>>
    /\ firstInput = <<>>
    /\ firstResult = <<>>
    /\ pass = 1
    /\ pc = "idle"
    /\ ReduceLocalsInit
    /\ StatsIdle
    /\ PairIdle
    /\ HeapInit
    /\ FileIdle

GeoDistance ==
    /\ gpc = "distance"
    /\ distanceOut' = calculateDistance(argPoint1, argPoint2)
    /\ gpc' = "distanceBack"
    /\ UNCHANGED <<argPoint1, argPoint2, argDirections, distanceBackOut,
                   bearingOut, directionsOut, changedOut>>
    /\ UNCHANGED <<reduceVars, statsVars>>
    /\ UNCHANGED pairVars
    /\ UNCHANGED heapVars
    /\ UNCHANGED fileVars

\* the same call with the two points exchanged
GeoDistanceBack ==
    /\ gpc = "distanceBack"
    /\ distanceBackOut' = calculateDistance(argPoint2, argPoint1)
    /\ gpc' = "bearing"
    /\ UNCHANGED <<argPoint1, argPoint2, argDirections, distanceOut,
                   bearingOut, directionsOut, changedOut>>
    /\ UNCHANGED <<reduceVars, statsVars>>
    /\ UNCHANGED pairVars
    /\ UNCHANGED heapVars
    /\ UNCHANGED fileVars

GeoBearing ==
    /\ gpc = "bearing"
    /\ bearingOut' = calculateBearing(argPoint1, argPoint2)
    /\ gpc' = "directions"
    /\ UNCHANGED <<argPoint1, argPoint2, argDirections, distanceOut,
                   distanceBackOut, directionsOut, changedOut>>
    /\ UNCHANGED <<reduceVars, statsVars>>
    /\ UNCHANGED pairVars
    /\ UNCHANGED heapVars
    /\ UNCHANGED fileVars

\* getCurrentDirections(current, previous) with current = argPoint1
GeoDirections ==
    /\ gpc = "directions"
    /\ LET d == getCurrentDirections(argPoint1, argPoint2)
       IN  directionsOut' = [err |-> IF d.err THEN "TypeError" ELSE "none",
                             lat |-> d.lat, lon |-> d.lon]
    /\ gpc' = "changed"
    /\ UNCHANGED <<argPoint1, argPoint2, argDirections, distanceOut,
                   distanceBackOut, bearingOut, changedOut>>
    /\ UNCHANGED <<reduceVars, statsVars>>
    /\ UNCHANGED pairVars
    /\ UNCHANGED heapVars
    /\ UNCHANGED fileVars

\* hasDirectionChanged(current, previous, directions): nothing is assigned
\* to the state passed
GeoChanged ==
    /\ gpc = "changed"
    /\ changedOut' = hasDirectionChanged(argPoint1, argPoint2, argDirections)
    /\ argDirections' = argDirections
    /\ gpc' = "done"
    /\ UNCHANGED <<argPoint1, argPoint2, distanceOut, distanceBackOut,
                   bearingOut, directionsOut>>
    /\ UNCHANGED <<reduceVars, statsVars>>
    /\ UNCHANGED pairVars
    /\ UNCHANGED heapVars
    /\ UNCHANGED fileVars

GeoNext ==
    \/ GeoDistance \/ GeoDistanceBack \/ GeoBearing \/ GeoDirections
    \/ GeoChanged

GeoSpec == GeoInit /\ [][GeoNext]_vars


----------------------------------------------------------------------------
(* Claims about the geometry and direction functions, under GeoSpec *)

DistanceReturned == distanceOut.err # "pending"
BearingReturned == bearingOut.err # "pending"

\* the point is absent, or its lat or lon is undefined
AbsentOrIncomplete(p) ==
    p.kind # "object" \/ p.lat.t = "undefined" \/ p.lon.t = "undefined"

\* one of the point's coordinates does not parse to a number
Unparsable(p) == parseFloat(p.lat).nan \/ parseFloat(p.lon).nan

LatOutOfRange(p) ==
    parseFloat(p.lat).v > 90 * Micro \/ parseFloat(p.lat).v < -(90 * Micro)
LonOutOfRange(p) ==
    parseFloat(p.lon).v > 180 * Micro \/ parseFloat(p.lon).v < -(180 * Micro)

\* C12: calculateDistance classifies bad input in a fixed order: the
\* invalid-points error when either point is absent or has an undefined lat
\* or lon; otherwise 'Invalid coordinate values' when one of the four
\* coordinates does not parse; otherwise the range error, latitude before
\* longitude; and only when none applies does it return a distance.
C12_ErrorsInFixedOrder ==
    DistanceReturned =>
      LET incomplete == AbsentOrIncomplete(argPoint1)
                        \/ AbsentOrIncomplete(argPoint2)
          unparsable == Unparsable(argPoint1) \/ Unparsable(argPoint2)
          latOut == LatOutOfRange(argPoint1) \/ LatOutOfRange(argPoint2)
          lonOut == LonOutOfRange(argPoint1) \/ LonOutOfRange(argPoint2)
      IN  distanceOut.err =
            IF incomplete THEN "Invalid points"
            ELSE IF unparsable THEN "Invalid coordinate values"
            ELSE IF latOut THEN "Latitude out of range"
            ELSE IF lonOut THEN "Longitude out of range"
            ELSE "none"

\* a longitude out of range in the first point and a latitude out of range
\* in the second: the latitude error is the one raised
C12_Witness ==
    /\ DistanceReturned
    /\ ~AbsentOrIncomplete(argPoint1) /\ ~AbsentOrIncomplete(argPoint2)
    /\ ~Unparsable(argPoint1) /\ ~Unparsable(argPoint2)
    /\ LonOutOfRange(argPoint1) /\ ~LatOutOfRange(argPoint1)
    /\ LatOutOfRange(argPoint2) /\ ~LonOutOfRange(argPoint2)
    /\ distanceOut.err = "Latitude out of range"


\* the point is an object whose two coordinates parse to numbers
Parsable(p) == ~AbsentOrIncomplete(p) /\ ~Unparsable(p)

\* the point's latitude is 90 or -90, or its longitude 180 or -180
OnBound(p) ==
    \/ parseFloat(p.lat).v \in {90 * Micro, -(90 * Micro)}
    \/ parseFloat(p.lon).v \in {180 * Micro, -(180 * Micro)}

\* C13: the coordinate bounds are inclusive and never clamped:
\* calculateDistance and calculateBearing accept two parsable points with
\* |lat| <= 90 and |lon| <= 180, lat = 90, -90 and lon = 180, -180 included,
\* and fail whenever a point has |lat| > 90 or |lon| > 180.
C13_BoundsInclusiveNeverClamped ==
    (DistanceReturned /\ BearingReturned) =>
      /\ (/\ Parsable(argPoint1) /\ Parsable(argPoint2)
          /\ ~LatOutOfRange(argPoint1) /\ ~LonOutOfRange(argPoint1)
          /\ ~LatOutOfRange(argPoint2) /\ ~LonOutOfRange(argPoint2))
         => (distanceOut.err = "none" /\ bearingOut.err = "none")
      /\ (\E p \in {argPoint1, argPoint2} :
              LatOutOfRange(p) \/ LonOutOfRange(p))
         => (distanceOut.err # "none" /\ bearingOut.err # "none")

\* from latitude 90 to latitude 89: both calls return, 60.04 nm due south
C13_Witness ==
    /\ DistanceReturned /\ BearingReturned
    /\ OnBound(argPoint1) /\ Parsable(argPoint1)
    /\ parseFloat(argPoint1.lat).v = 90 * Micro
    /\ parseFloat(argPoint2.lat).v = 89 * Micro
    /\ distanceOut = Ok(60040540)
    /\ bearingOut = Ok(180 * Micro)


\* the two points have the same latitude and the same longitude, as numbers
SameLatLon(a, b) ==
    /\ parseFloat(a.lat).v = parseFloat(b.lat).v
    /\ parseFloat(a.lon).v = parseFloat(b.lon).v

\* both points are at the north pole, or both at the south pole
SamePole(a, b) ==
    /\ parseFloat(a.lat).v = parseFloat(b.lat).v
    /\ parseFloat(a.lat).v \in {90 * Micro, -(90 * Micro)}

\* the same latitude, on the antimeridian under either of its names
SameOnAntimeridian(a, b) ==
    /\ parseFloat(a.lat).v = parseFloat(b.lat).v
    /\ parseFloat(a.lon).v \in {180 * Micro, -(180 * Micro)}
    /\ parseFloat(b.lon).v \in {180 * Micro, -(180 * Micro)}

\* C14 as stated: for all valid points a and b, calculateDistance(a, b) is
\* non-negative and is 0 exactly when a and b have the same latitude and
\* longitude.
C14_ZeroExactlyWhenSameLatLon ==
    (DistanceReturned /\ distanceOut.err = "none") =>
      /\ distanceOut.v >= 0
      /\ (distanceOut.v = 0 <=> SameLatLon(argPoint1, argPoint2))

\* C14, amended: for all valid points a and b, calculateDistance(a, b) is
\* never negative; it is 0 when a and b have the same latitude and
\* longitude, and also when their coordinates differ but name the same
\* place (two longitudes at one pole, longitudes 180 and -180 on one
\* latitude); between the other points drawn it is positive.
C14_ZeroWhenSamePlace ==
    (DistanceReturned /\ distanceOut.err = "none") =>
      /\ distanceOut.v >= 0
      /\ (SameLatLon(argPoint1, argPoint2) => distanceOut.v = 0)
      /\ (SamePole(argPoint1, argPoint2) => distanceOut.v = 0)
      /\ (SameOnAntimeridian(argPoint1, argPoint2) => distanceOut.v = 0)
      /\ (distanceOut.v = 0 =>
            \/ SameLatLon(argPoint1, argPoint2)
            \/ SamePole(argPoint1, argPoint2)
            \/ SameOnAntimeridian(argPoint1, argPoint2))

\* the distance from (90, 0) to ('90', '1.0') was computed and is 0
C14_Witness ==
    /\ DistanceReturned
    /\ distanceOut = Ok(0)
    /\ SamePole(argPoint1, argPoint2)
    /\ ~SameLatLon(argPoint1, argPoint2)


BothDistancesReturned ==
    distanceOut.err # "pending" /\ distanceBackOut.err # "pending"

\* C15: calculateDistance is symmetric: calculateDistance(a, b) fails
\* exactly when calculateDistance(b, a) fails, and when they return the two
\* distances are within 0.000001 nm of each other.
C15_DistanceSymmetric ==
    BothDistancesReturned =>
      /\ (distanceOut.err = "none" <=> distanceBackOut.err = "none")
      /\ (distanceOut.err = "none"
            => Abs(distanceOut.v - distanceBackOut.v) <= 1)

\* the distance between two different places was computed both ways
C15_Witness ==
    /\ BothDistancesReturned
    /\ distanceOut.err = "none"
    /\ distanceOut.v > 0
    /\ parseFloat(argPoint1.lat).v # parseFloat(argPoint2.lat).v
    /\ parseFloat(argPoint1.lon).v # parseFloat(argPoint2.lon).v
    /\ distanceBackOut = distanceOut


\* C16: for all valid points a and b, calculateBearing(a, b) is at least 0
\* and below 360 degrees, and it is exactly 0 when a and b have the same
\* latitude and longitude.
C16_BearingInHalfOpenRange ==
    (BearingReturned /\ bearingOut.err = "none") =>
      /\ bearingOut.v >= 0
      /\ bearingOut.v < 360 * Micro
      /\ (SameLatLon(argPoint1, argPoint2) => bearingOut.v = 0)

\* a bearing due west, for which atan2 gives -90 degrees, came out as 270
C16_Witness ==
    /\ BearingReturned
    /\ bearingOut = Ok(270 * Micro)
    /\ parseFloat(argPoint1.lat).v = parseFloat(argPoint2.lat).v
    /\ parseFloat(argPoint1.lon).v > parseFloat(argPoint2.lon).v


DirectionsReturned == directionsOut.err # "pending"

\* what the claim says of one axis, for two values that parse to numbers
AxisAsClaimed(sign, current, previous) ==
    /\ (current.v > previous.v => sign = 1)
    /\ (current.v < previous.v => sign = -1)
    /\ (current.v = previous.v => sign = 0)

\* C17: getCurrentDirections(current, previous) returns {lat: 0, lon: 0}
\* when either point is absent; otherwise, for the latitude and for the
\* longitude independently, 1 if the current value is strictly greater than
\* the previous one, -1 if strictly smaller, 0 if exactly equal, without
\* tolerance and with numeric strings compared by value.
C17_StrictSignPerAxis ==
    DirectionsReturned =>
      LET current == argPoint1
          previous == argPoint2
      IN  /\ directionsOut.err = "none"
          /\ (current.kind # "object" \/ previous.kind # "object")
             => (directionsOut.lat = 0 /\ directionsOut.lon = 0)
          /\ (current.kind = "object" /\ previous.kind = "object")
             => /\ (~parseFloat(current.lat).nan /\ ~parseFloat(previous.lat).nan)
                   => AxisAsClaimed(directionsOut.lat, parseFloat(current.lat),
                                    parseFloat(previous.lat))
                /\ (~parseFloat(current.lon).nan /\ ~parseFloat(previous.lon).nan)
                   => AxisAsClaimed(directionsOut.lon, parseFloat(current.lon),
                                    parseFloat(previous.lon))

\* '1.000001' against '1.0' with longitudes 0 and '0': north, and no change
\* of longitude
C17_Witness ==
    /\ DirectionsReturned
    /\ argPoint1.lat.t = "string" /\ argPoint2.lat.t = "string"
    /\ parseFloat(argPoint1.lat).v = parseFloat(argPoint2.lat).v + 1
    /\ argPoint1.lon # argPoint2.lon
    /\ directionsOut = [err |-> "none", lat |-> 1, lon |-> 0]


ChangedReturned == changedOut.err # "pending"

\* C18: hasDirectionChanged(current, previous, state) returns true whenever
\* previous is absent, whatever state is; otherwise, for a state {lat, lon},
\* it returns true exactly when the latitude sign or the longitude sign of
\* getCurrentDirections(current, previous) differs from the corresponding
\* field of state; and the call leaves state as it was.
C18_ChangedWhenASignDiffers ==
    /\ [](ChangedReturned =>
            LET previous == argPoint2
            IN  /\ previous.kind # "object"
                   => changedOut = [err |-> "none", changed |-> TRUE]
                /\ (previous.kind = "object" /\ argDirections.kind = "object")
                   => /\ changedOut.err = "none"
                      /\ changedOut.changed <=>
                            \/ directionsOut.lat # argDirections.lat
                            \/ directionsOut.lon # argDirections.lon)
    /\ [][gpc = "changed" => argDirections' = argDirections]_vars

\* the latitude goes the way the state says and the longitude does not:
\* the call returned true
C18_Witness ==
    /\ ChangedReturned
    /\ argPoint2.kind = "object"
    /\ argDirections.kind = "object"
    /\ directionsOut.lat = argDirections.lat
    /\ directionsOut.lat # 0
    /\ directionsOut.lon # argDirections.lon
    /\ changedOut = [err |-> "none", changed |-> TRUE]


\* the entries of directions, other than the first, whose bearing differs
\* by strictly more than 1 degree from that of the entry before
TurnsIn(dirs) ==
    { k \in 2..Len(dirs) :
        Abs(dirs[k].direction - dirs[k - 1].direction) > 1 * Micro }

\* C22: directionChanges equals the number of computed segments, other than
\* the first, whose bearing differs in absolute value by strictly more than
\* 1 from the bearing of the previously computed segment; a difference of
\* exactly 1 is not counted, the first segment never counts, and therefore
\* directionChanges <= max(0, number of segments - 1).
C22_ChangesCountTurnsAboveOne ==
    StatsDone =>
        /\ stats.directionChanges = Cardinality(TurnsIn(stats.directions))
        /\ stats.directionChanges
               <= IF Len(stats.directions) = 0 THEN 0
                  ELSE Len(stats.directions) - 1

\* the veering track: four segments, the second 1 degree from the first
\* (not counted), the third half a degree on (not counted), the fourth a
\* degree and a half on (counted)
C22_Witness ==
    /\ StatsDone
    /\ Len(stats.directions) = 4
    /\ stats.directions[2].direction - stats.directions[1].direction = 1 * Micro
    /\ stats.directionChanges = 1

\* the angle between two compass headings (micro-degrees), the short way round
HeadingsApart(a, b) ==
    IF Abs(a - b) <= 180 * Micro THEN Abs(a - b) ELSE 360 * Micro - Abs(a - b)

\* C23 as stated: two consecutive reduced segments whose compass headings
\* are within 1 degree of each other are not counted as a direction change,
\* including when the two headings lie on either side of north (359.6
\* degrees followed by 0.2 degrees): the changes counted are at most the
\* pairs of consecutive segments whose headings are more than 1 degree apart.
C23_HeadingsWithinOneNotCounted ==
    StatsDone =>
        stats.directionChanges
            <= Cardinality({ k \in 2..Len(stats.directions) :
                   HeadingsApart(stats.directions[k].direction,
                                 stats.directions[k - 1].direction)
                       > 1 * Micro })

PointsGiven ==
    /\ ~NullNonArrayOrEmpty(originalArg)
    /\ ~NullNonArrayOrEmpty(reducedArg)
    /\ \A j \in 1..Len(originalArg.elems) : Truthy(originalArg.elems[j])

\* the speed annotations of the points that parse to a number (micro-knots)
ValidSpeeds(o) ==
    { parseFloat(o[j].speed).v :
        j \in { n \in 1..Len(o) : ~parseFloat(o[n].speed).nan } }

\* C25 as stated: maxSpeed equals the maximum of all valid numeric speed
\* annotations found on the points of the original sequence (rounded to 2
\* decimals); points with an absent or non-numeric speed are ignored
\* without error, and maxSpeed is 0 when no point carries a valid speed.
C25_MaxSpeedOverOriginal ==
    (StatsDone /\ PointsGiven) =>
        LET speeds == ValidSpeeds(originalArg.elems)
        IN  IF speeds = {} THEN stats.maxSpeed = 0
            ELSE \E best \in speeds :
                    /\ \A s \in speeds : s <= best
                    /\ stats.maxSpeed = ToFixed2(best)

\* C26 as stated: totalHours is (timestamp of the last original point -
\* timestamp of the first original point) expressed in hours (to the nearest
\* hundredth) when both the first and the last original point carry a
\* timestamp, and is 0 when either lacks one; a missing timestamp never
\* causes an error and interior timestamps never influence the result.
C26_HoursFromFirstToLast ==
    (StatsDone /\ PointsGiven) =>
        LET o == originalArg.elems
            first == o[1]
            lastPoint == o[Len(o)]
        IN  IF first.time.present /\ lastPoint.time.present
            THEN /\ ~stats.totalHours.nan
                 /\ 2 * Abs(stats.totalHours.v * 36000
                            - (lastPoint.time.ms.v - first.time.ms.v)) <= 36000
            ELSE stats.totalHours = Num(0)

\* the walk retained the point at 0-based position j of the input
RetainedByWalk(j) == At(points, j) \in Range(reducedPoints)

\* C29: loop invariant of the simplifier walk: after point i (i >= 1) has
\* been considered, the tracked direction state equals the direction of the
\* step p[i-1] -> p[i], whether or not p[i] was retained; consequently, for
\* every i >= 2, the walk retains point i if and only if the direction of
\* step p[i-1] -> p[i] differs from the direction of step p[i-2] -> p[i-1].
C29_TrackedIsDirectionOfLastStep ==
    /\ pc = "loop" =>
           /\ directions = StepDirection(points, i - 1)
           /\ currentPoint = At(points, i - 1)
           /\ \A j \in 2..(i - 1) :
                  RetainedByWalk(j)
                      <=> StepDirection(points, j) # StepDirection(points, j - 1)
    /\ (Done /\ Len(points) >= 3) =>
           \A j \in 2..(Len(points) - 1) :
               RetainedByWalk(j)
                   <=> StepDirection(points, j) # StepDirection(points, j - 1)

\* in the middle of a walk: point 2 went on in the direction of the first
\* step and was dropped, point 3 turned and was retained
C29_Witness ==
    /\ pc = "loop"
    /\ i = 4
    /\ ~RetainedByWalk(2)
    /\ RetainedByWalk(3)
    /\ StepDirection(points, 2) = StepDirection(points, 1)
    /\ directions = StepDirection(points, 3)
    /\ directions # StepDirection(points, 2)

\* C28: reducePointsByDirection does not modify its input sequence or any
\* point in it and returns a newly built sequence (also for inputs of 2 or
\* fewer points), so the sequence the caller passed in can afterwards be
\* given unchanged to calculateRouteStatistics as the original.
C28_InputUntouchedOutputNew ==
    /\ [][(pc = "call" \/ pc = "loop") =>
              (points' = points /\ pointsId' = pointsId)]_vars
    /\ [](Done => /\ resultId # 0
                  /\ resultId # pointsId
                  /\ pass = 1 => points = firstInput)

\* two points in: the array returned holds the same two points and is
\* another array than the one passed
C28_Witness ==
    /\ Done
    /\ pass = 1
    /\ Len(points) = 2
    /\ result = points
    /\ points = firstInput
    /\ resultId # pointsId

\* C19 as stated: for non-empty original and reduced arrays the record
\* reports originalPoints = the length of original, reducedPoints = the
\* length of reduced, and reduction = (1 - reducedPoints / originalPoints)
\* * 100 to 2 decimals (held in hundredths of a percent: the nearest one).
C19_CountsAndReduction ==
    (/\ StatsDone
     /\ ~NullNonArrayOrEmpty(originalArg)
     /\ ~NullNonArrayOrEmpty(reducedArg))
    => LET o == Len(originalArg.elems)
           r == Len(reducedArg.elems)
       IN  /\ stats.originalPoints = o
           /\ stats.reducedPoints = r
           /\ 2 * Abs(stats.reduction * o - (o - r) * 10000) <= o

\* the entries of directions the claim describes, from the pair
\* (r[k-1], r[k]) on (0-based k): one per pair whose bearing and distance
\* both compute
RECURSIVE SegmentsOfComputablePairs(_, _)
SegmentsOfComputablePairs(r, k) ==
    IF k >= Len(r) THEN <<>>
    ELSE LET b == calculateBearing(At(r, k - 1), At(r, k))
             d == calculateDistance(At(r, k - 1), At(r, k))
         IN  (IF b.err = "none" /\ d.err = "none"
              THEN <<[direction |-> b.v, length |-> ToFixed2(d.v)]>>
              ELSE <<>>)
             \o SegmentsOfComputablePairs(r, k + 1)

\* every element of r is an object with parsable, in-range coordinates
AllValid(r) == \A j \in 1..Len(r) : Truthy(r[j]) /\ ~Malformed(r[j])

\* C20 as stated: for a non-empty original and a reduced array of m points,
\* directions holds, in order, one entry per consecutive pair of reduced
\* points whose bearing and distance both compute, made of that bearing and
\* of the distance rounded to 2 decimals: m - 1 entries when every reduced
\* point is valid, none when m = 1.
C20_OneSegmentPerComputablePair ==
    (/\ StatsDone
     /\ ~NullNonArrayOrEmpty(originalArg)
     /\ ~NullNonArrayOrEmpty(reducedArg))
    => LET r == reducedArg.elems
       IN  /\ stats.directions = SegmentsOfComputablePairs(r, 1)
           /\ (AllValid(r) => Len(stats.directions) = Len(r) - 1)
           /\ (Len(r) = 1 => stats.directions = <<>>)

----------------------------------------------------------------------------
(* Two calls of calculateRouteStatistics that share one argument *)

MaxPairLen == 2

\* the original arguments of the two calls: every track of 1..MaxPairLen
\* points of the pool
PairOriginals ==
    { JsArray(MkTrack(ix)) :
        ix \in UNION { [1..n -> 1..Len(StatPool)] : n \in 1..MaxPairLen } }

\* the reduced arguments of the two calls: the non-empty tracks
PairReduced == { r \in StatReduced : ~InvalidArray(r) }

PairInit ==
    /\ originalArg \in PairOriginals
    /\ reducedArg \in PairReduced
    /\ spc = "call"
    /\ StatsLocalsInit
    /\ points = <<>>
    /\ firstInput = <<>>
    /\ firstResult = <<>>
    /\ pass = 1
    /\ pc = "idle"
    /\ ReduceLocalsInit
    /\ GeoIdle
    /\ PairIdle
    /\ HeapInit
    /\ FileIdle

\* the caller keeps what the first call returned and calls again, with the
\* same original and another reduced track or the same reduced and another
\* original track; the locals of lines 228-311 are those of the new call
StatsAgain ==
    /\ spc = "done"
    /\ statsPass = 1
    /\ statsPass' = 2
    /\ firstOriginalArg' = originalArg
    /\ firstReducedArg' = reducedArg
    /\ firstStats' = stats
    /\ \/ /\ originalArg' = originalArg
          /\ reducedArg' \in PairReduced \ {reducedArg}
       \/ /\ reducedArg' = reducedArg
          /\ originalArg' \in PairOriginals \ {originalArg}
    /\ spc' = "call"
    /\ statI' = 0
    /\ straightLineDistance' = 0
    /\ boatDistance' = 0
    /\ skipped' = {}
    /\ directionChanges' = 0
    /\ segments' = <<>>
    /\ previousBearing' = [isNull |-> TRUE, v |-> 0]
    /\ totalHours' = Num(0)
    /\ maxSpeed' = 0
    /\ stats' = [kind |-> "none"]
    /\ UNCHANGED reduceVars
    /\ UNCHANGED geoVars
    /\ defaultId' = 0
    /\ directionsId' = 0
    /\ statsId' = 0
    /\ UNCHANGED <<nextId, pointsId, resultId, heap>>
    /\ UNCHANGED fileVars

PairNext == StatsNext \/ StatsAgain

PairSpec == PairInit /\ [][PairNext]_vars

\* the second of the two calls has returned
BothStatsDone == spc = "done" /\ statsPass = 2

\* C21: for non-empty inputs, straightLineDistance, boatDistance, totalHours
\* and maxSpeed are determined by the original sequence alone (two calls
\* with the same original and different non-empty reduced sequences agree on
\* them), and directions and directionChanges are determined by the reduced
\* sequence alone (two calls with the same reduced and different non-empty
\* original sequences agree on them).
C21_EachFieldHasOneSource ==
    BothStatsDone =>
        /\ originalArg = firstOriginalArg =>
               /\ stats.straightLineDistance = firstStats.straightLineDistance
               /\ stats.boatDistance = firstStats.boatDistance
               /\ stats.totalHours = firstStats.totalHours
               /\ stats.maxSpeed = firstStats.maxSpeed
        /\ reducedArg = firstReducedArg =>
               /\ stats.directions = firstStats.directions
               /\ stats.directionChanges = firstStats.directionChanges

----------------------------------------------------------------------------
(* gpxProcessor.js: processFile, the iteration over the routes of a file *)

MaxRoutes == 2
MaxFileLen == 3

\* the track points a file holds: three valid ones, a non-numeric latitude,
\* a missing longitude, a latitude out of range, and null
FilePool ==
    << StatPool[1], StatPool[2], NorthEastPoint, StatPool[4], StatPool[5],
       StatPool[6], Null >>

\* lines 423-431: the filter's test
KeptByFilter(point) ==
    /\ Truthy(point)
    /\ ~MissingCoordinate(point)
    /\ ~parseFloat(point.lat).nan
    /\ ~parseFloat(point.lon).nan

\* a route as parsed: its name ("" when it has none), whether it has a
\* trkseg, the trkpt of the trkseg (an array, or a single point that line
\* 420 wraps), and no stats yet
Route(name, hasTrkseg, kind, elems) ==
    [name |-> name, hasTrkseg |-> hasTrkseg,
     trkpt |-> [kind |-> kind, id |-> 0, elems |-> elems], stats |-> 0]

\* north, on north by a millionth of a degree, then back and east
StraightThenTurn ==
    << Waypoint(1, 0, 0), Waypoint(2, 1000000, 0), Waypoint(3, 1000001, 0),
       Waypoint(4, 1000000, 1000000) >>

FileTracks ==
    {<<>>} \cup
    { [j \in 1..Len(ix) |->
          IF Truthy(FilePool[ix[j]]) THEN [FilePool[ix[j]] EXCEPT !.ref = j]
          ELSE FilePool[ix[j]]] :
        ix \in UNION { [1..n -> 1..Len(FilePool)] : n \in 1..MaxFileLen } }
    \cup {StraightThenTurn}

RouteNames == {"", "Track"}

\* the first route of the file is any route
AnyRoute ==
    { Route(name, TRUE, "array", elems) :
        name \in RouteNames, elems \in FileTracks }
    \cup { Route(name, TRUE, "single", <<[StatPool[1] EXCEPT !.ref = 1]>>) :
             name \in RouteNames }
    \cup { Route(name, FALSE, "array", <<>>) : name \in RouteNames }

\* the routes after it: without trkseg, empty, two valid points, a first
\* point out of range, and the track that loses a point
LaterRoutes ==
    { Route("", FALSE, "array", <<>>),
      Route("Track", FALSE, "array", <<>>),
      Route("", TRUE, "array", <<>>),
      Route("Track", TRUE, "array",
            <<[StatPool[1] EXCEPT !.ref = 1], [StatPool[2] EXCEPT !.ref = 2]>>),
      Route("Track", TRUE, "array",
            <<[StatPool[6] EXCEPT !.ref = 1], [StatPool[1] EXCEPT !.ref = 2]>>),
      Route("", TRUE, "array", StraightThenTurn) }

FileRoutes(k) == IF k = 1 THEN AnyRoute ELSE LaterRoutes

\* a call calculateRouteStatistics(o, r) begins
StatsCall(o, r) ==
    /\ originalArg' = o
    /\ reducedArg' = r
    /\ spc' = "call"
    /\ statI' = 0
    /\ straightLineDistance' = 0
    /\ boatDistance' = 0
    /\ skipped' = {}
    /\ directionChanges' = 0
    /\ segments' = <<>>
    /\ previousBearing' = [isNull |-> TRUE, v |-> 0]
    /\ totalHours' = Num(0)
    /\ maxSpeed' = 0
    /\ stats' = [kind |-> "none"]
    /\ defaultId' = 0
    /\ directionsId' = 0
    /\ statsId' = 0

\* a call reducePointsByDirection(pts) begins, pts the array of identity id
ReduceCall(pts, id) ==
    /\ points' = pts
    /\ pointsId' = id
    /\ pc' = "call"
    /\ i' = 0
    /\ reducedPoints' = <<>>
    /\ currentPoint' = Undefined
    /\ directions' = NoDirections
    /\ result' = <<>>
    /\ resultId' = 0
    /\ inspections' = 0
    /\ pass' = 1
    /\ firstInput' = pts
    /\ firstResult' = <<>>

FileInit ==
    /\ routeIx = 1
    /\ fpc = "route"
    /\ route = Route("", FALSE, "array", <<>>)
    /\ validPoints = [id |-> 0, elems |-> <<>>]
    /\ finished = <<>>
    /\ HeapInit
    /\ points = <<>>
    /\ firstInput = <<>>
    /\ firstResult = <<>>
    /\ pass = 1
    /\ pc = "idle"
    /\ ReduceLocalsInit
    /\ StatsIdle
    /\ GeoIdle
    /\ PairIdle

\* lines 416-436, 448-449 and 455-456: a route is taken up, its points
\* filtered; with two valid points or more the reduction is called, else
\* the statistics of two empty arrays
FileRoute ==
    /\ fpc = "route"
    /\ routeIx <= MaxRoutes
    /\ \E r \in FileRoutes(routeIx) :
          LET valid == SelectSeq(r.trkpt.elems, KeptByFilter)
          IN  /\ route' = r
              /\ validPoints' = IF r.hasTrkseg
                                THEN [id |-> nextId, elems |-> valid]
                                ELSE [id |-> 0, elems |-> <<>>]
              /\ nextId' = IF r.hasTrkseg THEN nextId + 1 ELSE nextId
              /\ IF r.hasTrkseg /\ Len(valid) >= 2
                 THEN /\ ReduceCall(valid, nextId)
                      /\ fpc' = "reduce"
                      /\ UNCHANGED statsVars
                      /\ UNCHANGED <<defaultId, directionsId, statsId>>
                 ELSE /\ StatsCall(JsArray(<<>>), JsArray(<<>>))
                      /\ fpc' = "stats"
                      /\ UNCHANGED reduceVars
                      /\ UNCHANGED <<pointsId, resultId>>
    /\ UNCHANGED <<routeIx, finished, heap>>
    /\ UNCHANGED geoVars
    /\ UNCHANGED pairVars

\* lines 437-440: the array that was reduced and the array that came back
\* are passed to calculateRouteStatistics
FileCallStats ==
    /\ fpc = "reduce"
    /\ pc = "done"
    /\ StatsCall(JsArray(points), JsArray(result))
    /\ fpc' = "stats"
    /\ UNCHANGED <<nextId, pointsId, resultId, heap>>
    /\ UNCHANGED <<routeIx, route, validPoints, finished>>
    /\ UNCHANGED reduceVars
    /\ UNCHANGED geoVars
    /\ UNCHANGED pairVars

\* line 442: stats.name = route.name
NamedStats(record, name) ==
    [f \in DOMAIN record \cup {"name"} |->
        IF f = "name" THEN name ELSE record[f]]

\* the branch of lines 434-447 was taken
Reduced == route.hasTrkseg /\ Len(validPoints.elems) >= 2

\* lines 441-447, 450-451 and 457-458: the name, the stats and the points
\* are stored on the route
FileStore ==
    /\ fpc = "stats"
    /\ spc = "done"
    /\ heap' = IF Reduced /\ route.name # ""
               THEN [heap EXCEPT ![statsId].value = NamedStats(@, route.name)]
               ELSE heap
    /\ route' = [route EXCEPT
                   !.stats = statsId,
                   !.trkpt = IF Reduced
                             THEN [kind |-> "array", id |-> resultId,
                                   elems |-> result]
                             ELSE IF route.hasTrkseg
                             THEN [kind |-> "array", id |-> validPoints.id,
                                   elems |-> validPoints.elems]
                             ELSE [kind |-> "array", id |-> nextId,
                                   elems |-> <<>>]]
    /\ nextId' = IF route.hasTrkseg THEN nextId ELSE nextId + 1
    /\ fpc' = "stored"
    /\ UNCHANGED <<pointsId, resultId, defaultId, directionsId, statsId>>
    /\ UNCHANGED <<routeIx, validPoints, finished>>
    /\ UNCHANGED reduceVars
    /\ UNCHANGED statsVars
    /\ UNCHANGED geoVars
    /\ UNCHANGED pairVars

\* line 460: forEach goes on to the next route; the route keeps the record
\* (finished remembers what calculateRouteStatistics had returned)
FileNextRoute ==
    /\ fpc = "stored"
    /\ finished' = Append(finished, [route |-> route, returned |-> stats,
                                     valid |-> Len(validPoints.elems)])
    /\ routeIx' = routeIx + 1
    /\ fpc' = "route"
    /\ UNCHANGED <<route, validPoints>>
    /\ UNCHANGED heapVars
    /\ UNCHANGED reduceVars
    /\ UNCHANGED statsVars
    /\ UNCHANGED geoVars
    /\ UNCHANGED pairVars

\* lines 462-500: after the last route the file is saved and the stats of
\* the routes are collected (routes.map(route => route.stats || {}))
FileEnd ==
    /\ fpc = "route"
    /\ routeIx > 1
    /\ fpc' = "done"
    /\ UNCHANGED <<routeIx, route, validPoints, finished>>
    /\ UNCHANGED heapVars
    /\ UNCHANGED reduceVars
    /\ UNCHANGED statsVars
    /\ UNCHANGED geoVars
    /\ UNCHANGED pairVars

FileNext ==
    \/ FileRoute \/ ReduceEnter \/ ReduceStep \/ ReduceFinish
    \/ FileCallStats \/ StatsNext \/ FileStore \/ FileNextRoute \/ FileEnd

FileSpec == FileInit /\ [][FileNext]_vars

\* the records calculateRouteStatistics has returned to processFile so far:
\* their identity, what they held when they were returned, and the route
\* they were returned for
Returned ==
    { [id |-> finished[k].route.stats, returned |-> finished[k].returned,
       name |-> finished[k].route.name,
       reduced |-> finished[k].route.hasTrkseg /\ finished[k].valid >= 2] :
        k \in 1..Len(finished) }
    \cup (IF fpc = "stored"
          THEN {[id |-> statsId, returned |-> stats, name |-> route.name,
                 reduced |-> Reduced]}
          ELSE {})

\* the record and the objects it holds (directions, closestLocations)
ObjectsOf(id) == {id} \cup heap[id].nested

\* each record is an object of its own and shares nothing with another
FreshAndUnshared ==
    \A a \in Returned : \A b \in Returned :
        a # b => ObjectsOf(a.id) \cap ObjectsOf(b.id) = {}

\* C27 as stated: a statistics record is constructed fresh by each
\* calculateRouteStatistics call (including the default record), shares no
\* mutable state with the record of any other call, and is not modified by
\* any consumer, processFile included, after calculateRouteStatistics has
\* returned it.
C27_FreshAndNeverModified ==
    /\ Cardinality(Returned) = Len(finished) + (IF fpc = "stored" THEN 1 ELSE 0)
    /\ FreshAndUnshared
    /\ \A a \in Returned : heap[a.id].value = a.returned

\* C27 amended: each call constructs its record fresh (the default record
\* included) and shares no mutable state with the record of another call;
\* after it is returned the record is modified in one way only: for a
\* route that has a name and two valid points or more, processFile sets
\* name on the record; every other field stays as returned, and the record
\* of any other route stays as returned altogether.
C27_FreshAndOnlyNamed ==
    /\ Cardinality(Returned) = Len(finished) + (IF fpc = "stored" THEN 1 ELSE 0)
    /\ FreshAndUnshared
    /\ \A a \in Returned :
          LET now == heap[a.id].value
          IN  IF a.reduced /\ a.name # ""
              THEN /\ DOMAIN now = DOMAIN a.returned \cup {"name"}
                   /\ now.name = a.name
                   /\ \A f \in DOMAIN a.returned : now[f] = a.returned[f]
              ELSE now = a.returned

\* two routes done: the first has a name and got it on its record, the
\* second has no trkseg and got a default record of its own, untouched
C27_Witness ==
    /\ fpc = "stored"
    /\ Len(finished) = 1
    /\ finished[1].route.name = "Track"
    /\ finished[1].returned.originalPoints >= 2
    /\ heap[finished[1].route.stats].value.name = "Track"
    /\ ~route.hasTrkseg
    /\ stats = DefaultStats
    /\ heap[statsId].value = DefaultStats
    /\ statsId # finished[1].route.stats

\* the point has a lat and a lon that read as numbers
NumericLatLon(p) ==
    p.kind = "object" /\ ~parseFloat(p.lat).nan /\ ~parseFloat(p.lon).nan

\* C30 as stated: after processFile, for every track that has at least two
\* points with numeric lat and lon, the points stored back on the track are
\* reducePointsByDirection(validPoints), stats.originalPoints equals the
\* number of valid points and stats.reducedPoints equals the number of
\* points stored back on the track; points with missing or non-numeric
\* lat/lon are dropped before reduction and counted in neither.
C30_StoredPointsAndCounts ==
    /\ (fpc \in {"reduce", "stats"} /\ route.hasTrkseg) =>
           validPoints.elems = SelectSeq(route.trkpt.elems, NumericLatLon)
    /\ (fpc = "stored" /\ route.hasTrkseg /\ Len(validPoints.elems) >= 2) =>
           LET valid == validPoints.elems
               stored == route.trkpt.elems
               record == heap[route.stats].value
           IN  /\ IsSubsequence(stored, valid)
               /\ KeptPositions(stored, valid) =
                      IF Len(valid) = 2 THEN {0, 1} ELSE ExpectedKept(valid)
               /\ record.originalPoints = Len(valid)
               /\ record.reducedPoints = Len(stored)

====
